---- MODULE Spec2Model ----
(***************************************************************************)
(* A state-machine model of the pi-splay dashboard's workspace             *)
(* coordination layer:                                                     *)
(*   - TileManager  (src/src/components/TileManager.ts): the tile set, the *)
(*     grid placement, edit mode and the mouse / touch / native drag       *)
(*     handlers;                                                           *)
(*   - ClockManager (src/unnamed/part_010): the shared one-second timer;   *)
(*   - MarkSyncManager (src/unnamed/part_008) with createTimeMark          *)
(*     (src/unnamed/part_009): the synchronized mark broadcast.            *)
(*                                                                         *)
(* Optional values (T | null) are sequences of length at most one:         *)
(* <<>> is null and <<v>> is the value v.                                  *)
(***************************************************************************)
EXTENDS Integers, Sequences, FiniteSets, TLC

(***************************************************************************)
(* Bounds of the model.                                                    *)
(***************************************************************************)
\* number of tile ids the workspace draws from
MaxTiles == 2
\* drop-zone overlays counted per cell up to this many ("this many or more")
MaxZoneCopies == 2
\* cooldown timers (setTimeout 300 ms of handleMouseEnd) pending at once
MaxCooldownTimers == 1
\* onTick calls counted per subscriber
MaxTicks == 2
\* clock subscribers when the ClockManager is driven directly
MaxSubscribers == 3
\* time and epoch widgets alive at once when the managers are driven directly
MaxModules == 2
\* marks kept per widget
MaxMarks == 2
\* times the wall clock advances
MaxClockSteps == 2
\* the largest scrollTop a marks list is scrolled to
MaxScrollOffset == 2
\* the days of the calendar that are clicked
MaxDates == 2
\* the rows of the grid single tiles are put on, for getNextAvailablePosition
MaxScanRows == 2

(***************************************************************************)
(* Program constants.                                                      *)
(***************************************************************************)
TileWidth == 500
TileHeight == 200
GridGap == 24
ContainerPadding == 16
MaxRowsBelow == 5
DragThreshold == 10
MinCols == 3
RowLimit == 100

NULL == <<>>
Some(v) == <<v>>
IsNull(o) == o = <<>>
Val(o) == o[1]

Abs(n) == IF n < 0 THEN 0 - n ELSE n
Max2(a, b) == IF a >= b THEN a ELSE b
Min2(a, b) == IF a <= b THEN a ELSE b
\* Math.floor(a / b) and Math.ceil(a / b) for b > 0 (\div rounds down)
FloorDiv(a, b) == a \div b
CeilDiv(a, b) == 0 - ((0 - a) \div b)

SetMax(S) == CHOOSE m \in S : \A n \in S : n <= m

(***************************************************************************)
(* The container's bounding rectangle (getBoundingClientRect): wide enough *)
(* for two columns of tiles, one row high.                                 *)
(***************************************************************************)
ContainerRect ==
  [left |-> 100, top |-> 50, width |-> 32 + 2 * (TileWidth + GridGap),
   height |-> TileHeight + GridGap]
ContainerRight == ContainerRect.left + ContainerRect.width
ContainerBottom == ContainerRect.top + ContainerRect.height

TileIds == 1 .. MaxTiles
\* the identities of the widgets (a tile's widget has the tile's id)
ModuleIds == 1 .. Max2(MaxTiles, Max2(MaxModules, MaxSubscribers))

\* the type of the tile with a given id (ids are opaque; the type is fixed
\* per id so that each kind of widget occurs)
TileType(id) ==
  CASE id = 1 -> "time"
    [] id = 2 -> "epoch"
    [] OTHER -> "calendar"

VARIABLES
  \* ---- TileManager fields (TileManager.ts 16-28, 597-603, 695)
  isEditMode,             \* boolean
  tiles,                  \* the Map id -> tile, as a sequence in insertion order
                          \*   of records [id, gridPosition]
  elemPos,                \* id -> style.gridColumn / gridRow of the tile element
                          \*   in the container, as the grid line numbers
  draggedElement,         \* null | [tileId, live]; live: the element is the one
                          \*   in the container (not one detached by removal)
  isMouseDragging,
  isTouchDragging,
  justFinishedDrag,
  cooldownTimers,         \* number of pending 300 ms timeouts of handleMouseEnd
  mouseStart,             \* [x, y]  (mouseStartX, mouseStartY)
  touchStart,             \* [x, y]  (touchStartX, touchStartY)
  lastHighlightedGridPos, \* null | [col, row]
  dropZones,              \* cell -> number of overlay elements for that cell
  hovered,                \* the cells whose overlay carries drop-zone-hovered
  pendingGridPosition,    \* null | [x, y]
  modalRequests,          \* the detail.gridPosition of the showAddTileModal
                          \*   events dispatched since the modal was last closed
  persistLog,             \* the tile lists handed to onTilesChangeCallback by
                          \*   the last handler, in call order
  editModeTiles,          \* the tiles whose element has class edit-mode and
                          \*   draggable = 'true'
  removeButtons,          \* the tiles whose element holds a remove button
                          \*   that is shown (display flex)
  \* ---- the page's environment (part_006 289-299)
  storageFull,            \* localStorage.setItem throws (quota exceeded)
  hostname,               \* window.location.hostname
  \* ---- what the last handler or callback left behind
  uncaught,               \* an exception escaped it to the event loop
  consoleErrors,          \* the number of console.error calls it made
  \* ---- ClockManager fields (part_010 11-14) and the browser's timers
  subscribers,            \* Set<ClockSubscriber>
  isRunning,
  timeoutId,              \* null | timer id
  intervalId,             \* null | timer id
  timers,                 \* the live timers: set of [id, kind]
  tickCount,              \* subscriber -> number of onTick calls received
  \* ---- MarkSyncManager / TimeModule state (part_008 148; UUIDModule.ts 3353)
  modules,                \* Set<MarkableModule> in insertion order
  timezone,               \* module -> 'local' | 'utc' | IANA zone
  marks,                  \* module -> data.marks
  now,                    \* the wall clock, ms since the epoch
  callLog,                \* the calls made by the last syncTap, in order
  \* ---- the widgets' own state (UUIDModule.ts 3353-3355, 3469; 2311-2325)
  scrollTop,              \* module -> marksList.scrollTop
  scrollPending,          \* the modules whose marks list has a scroll event queued
  scrollRange,            \* module -> the largest scrollTop its marks list takes
  hasMoved,               \* module -> hasMoved of its touch listeners
  calendar,               \* null | the selectedDates of the calendar widget
  \* ---- getNextAvailablePosition on its own (TileManager.ts 758-787)
  occupied,               \* the Set of the keys of the cells that tiles hold
  nextPosition,           \* null | what the last call returned
  \* ---- getGridPositionFromEvent on its own (TileManager.ts 529-595)
  pointer,                \* null | [x, y]  (clientX, clientY of the last event)
  gridCell                \* null | [col, row]: what the call returned for it

tmVars == <<isEditMode, tiles, elemPos, draggedElement, isMouseDragging,
            isTouchDragging, justFinishedDrag, cooldownTimers, mouseStart,
            touchStart, lastHighlightedGridPos, dropZones, hovered,
            pendingGridPosition, modalRequests, persistLog, editModeTiles, removeButtons>>
envVars == <<storageFull, hostname>>
scanVars == <<occupied, nextPosition, pointer, gridCell>>
outVars == <<uncaught, consoleErrors>>
widgetVars == <<scrollTop, scrollPending, scrollRange, hasMoved, calendar>>
clockVars == <<subscribers, isRunning, timeoutId, intervalId, timers, tickCount>>
syncVars == <<modules, timezone, marks, now, callLog>>
vars == <<tmVars, envVars, scanVars, outVars, clockVars, syncVars, widgetVars>>

Range(f) == {f[i] : i \in DOMAIN f}

(***************************************************************************)
(* ClockManager (src/unnamed/part_010).  The operations are written as     *)
(* functions on the record c of the manager's fields plus the browser's    *)
(* live timers, so that the widgets' constructors and destroy() can call   *)
(* them from inside the TileManager's handlers.                            *)
(***************************************************************************)
ClockState ==
  [subscribers |-> subscribers, isRunning |-> isRunning, timeoutId |-> timeoutId,
   intervalId |-> intervalId, timers |-> timers, now |-> now]

SetClock(c) ==
  /\ subscribers' = c.subscribers
  /\ isRunning' = c.isRunning
  /\ timeoutId' = c.timeoutId
  /\ intervalId' = c.intervalId
  /\ timers' = c.timers

\* window.setTimeout / setInterval return an id never handed out before: the
\* least id that is neither live nor still referenced by the manager
NewTimerId(c) ==
  LET used == {t.id : t \in c.timers} \cup Range(c.timeoutId) \cup Range(c.intervalId)
  IN  CHOOSE n \in 1 .. (Cardinality(used) + 1) :
        /\ n \notin used
        /\ \A k \in 1 .. (n - 1) : k \in used

\* clearTimeout(id) / clearInterval(id): the timer with that id, if live, is
\* cancelled (both calls address the same list of active timers)
ClearTimer(ts, id) == {t \in ts : t.id # id}

\* a live timer of the browser: its id, its kind, the delay it was created
\* with and the wall-clock instant of the setTimeout / setInterval call
Timer(id, kind, delay, at) == [id |-> id, kind |-> kind, delay |-> delay, at |-> at]

\* lines 83-85 and 89: the delay of the one-shot, from the milliseconds of
\* the wall clock (Date.getMilliseconds, 0 .. 999)
TickDelayNoBuffer(currentMs) == 1000 - currentMs
TickDelay(currentMs) ==
  LET msUntilNextSecond == 1000 - currentMs
  IN  IF msUntilNextSecond + 20 > 20 THEN msUntilNextSecond + 20 ELSE 20

\* line 98: the period of the interval
TickInterval == 1000

\* lines 81-100: one one-shot timeout aligned to the next second
ScheduleNextTick(c) ==
  LET id == NewTimerId(c)
  IN  [c EXCEPT !.timeoutId = Some(id),
                !.timers = @ \cup {Timer(id, "timeout", TickDelay(c.now % 1000), c.now)}]

\* lines 52-57
StartClock(c) ==
  IF c.isRunning THEN c
  ELSE ScheduleNextTick([c EXCEPT !.isRunning = TRUE])

\* a stopClock that forgets clearInterval
StopClockKeepsInterval(c) ==
  IF ~c.isRunning THEN c
  ELSE LET c1 == [c EXCEPT !.isRunning = FALSE]
       IN  IF ~IsNull(c1.timeoutId)
           THEN [c1 EXCEPT !.timers = ClearTimer(@, Val(c1.timeoutId)),
                           !.timeoutId = NULL]
           ELSE c1

\* lines 62-76
StopClock(c) ==
  IF ~c.isRunning THEN c
  ELSE LET c1 == [c EXCEPT !.isRunning = FALSE]
           c2 == IF ~IsNull(c1.timeoutId)
                 THEN [c1 EXCEPT !.timers = ClearTimer(@, Val(c1.timeoutId)),
                                 !.timeoutId = NULL]
                 ELSE c1
       IN  IF ~IsNull(c2.intervalId)
           THEN [c2 EXCEPT !.timers = ClearTimer(@, Val(c2.intervalId)),
                           !.intervalId = NULL]
           ELSE c2

\* a subscribe that schedules a tick whether or not the clock is running
ClockSubscribeAlwaysStarts(c, s) ==
  ScheduleNextTick([c EXCEPT !.subscribers = @ \cup {s}, !.isRunning = TRUE])

\* lines 28-35
ClockSubscribe(c, s) ==
  LET c1 == [c EXCEPT !.subscribers = @ \cup {s}]
  IN  IF ~c1.isRunning THEN StartClock(c1) ELSE c1

\* an unsubscribe that stops the clock whoever is left
ClockUnsubscribeAlwaysStops(c, s) ==
  StopClock([c EXCEPT !.subscribers = @ \ {s}])

\* lines 40-47
ClockUnsubscribe(c, s) ==
  LET c1 == [c EXCEPT !.subscribers = @ \ {s}]
  IN  IF c1.subscribers = {} /\ c1.isRunning THEN StopClock(c1) ELSE c1

(***************************************************************************)
(* MarkSyncManager registry (src/unnamed/part_008 159-165): a Set, kept in *)
(* insertion order.                                                        *)
(***************************************************************************)
SyncRegister(ms, m) == IF m \in Range(ms) THEN ms ELSE Append(ms, m)
SyncUnregister(ms, m) == SelectSeq(ms, LAMBDA x : x # m)

(***************************************************************************)
(* TileManager: the tile Map and the grid.                                 *)
(***************************************************************************)
CellWidth == TileWidth + GridGap
CellHeight == TileHeight + GridGap

TileIdsIn(ts) == {ts[i].id : i \in DOMAIN ts}
HasTile(ts, id) == id \in TileIdsIn(ts)
TileIndex(ts, id) == CHOOSE i \in DOMAIN ts : ts[i].id = id
TileOf(ts, id) == ts[TileIndex(ts, id)]
\* this.tiles.delete(id)
DeleteTile(ts, id) == SelectSeq(ts, LAMBDA t : t.id # id)

\* the occupied cells, as the keys `${x},${y}` of lines 629-640 and 760-767
Occupied(ts) == {[col |-> ts[i].gridPosition.x, row |-> ts[i].gridPosition.y] : i \in DOMAIN ts}

\* the style written by addTile and the drag commits: gridColumn =
\* `${x + 1} / span 1`, gridRow = `${y + 1}` (lines 273-274, 981-982)
FormatStyle(pos) == [gridColumn |-> pos.x + 1, gridRow |-> pos.y + 1]
\* lines 739-756: the first run of digits of each style, minus one
GetCurrentGridPosition(style) ==
  [x |-> Abs(style.gridColumn) - 1, y |-> Abs(style.gridRow) - 1]

\* lines 840-854: every tile whose element is in the container takes the
\* position its element's style names
GetAllTiles(ts, ep) ==
  [i \in DOMAIN ts |->
     IF ts[i].id \in DOMAIN ep
     THEN [ts[i] EXCEPT !.gridPosition = GetCurrentGridPosition(ep[ts[i].id])]
     ELSE ts[i]]

\* the columns showAllDropZones lays zones in (line 647) and the columns
\* getNextAvailablePosition scans (line 773)
MaxColsOfZones == CeilDiv(ContainerRect.width - 32, CellWidth)
MaxColsOfScan == Max2(MinCols, CeilDiv(ContainerRect.width - 32, CellWidth))

RowMajorBefore(p, q) == p.row < q.row \/ (p.row = q.row /\ p.col <= q.col)

SetMin(S) == CHOOSE n \in S : \A k \in S : n <= k

\* lines 776-786, over the Set occ of occupied cells: the outer loop stops
\* at the first of the rows 0..99 in which the inner loop finds a column
\* whose key is not in the Set, the inner loop at the first such column;
\* (0, 100) when both loops end
ScanRows(occ) ==
  LET freeCols(row) == {c \in 0 .. (MaxColsOfScan - 1) : [col |-> c, row |-> row] \notin occ}
      rows == {r \in 0 .. (RowLimit - 1) : freeCols(r) # {}}
  IN  IF rows = {} THEN [x |-> 0, y |-> RowLimit]
      ELSE [x |-> SetMin(freeCols(SetMin(rows))), y |-> SetMin(rows)]

\* lines 758-787: the first unoccupied cell, rows top to bottom, columns left
\* to right; (0, 100) when the first 100 rows are full
GetNextAvailablePosition(ts) == ScanRows(Occupied(ts))

(***************************************************************************)
(* Drop zones.  this.dropZones is a list of overlay elements; the model    *)
(* keeps, per cell, how many overlays the list holds for it, counted up to *)
(* MaxZoneCopies.                                                          *)
(***************************************************************************)
NoCells == [c \in {} |-> 0]
ZoneCount(bag, c) == IF c \in DOMAIN bag THEN bag[c] ELSE 0
\* bag a plus bag b, each count capped at MaxZoneCopies
AddZones(a, b) ==
  [c \in DOMAIN a \cup DOMAIN b |->
     IF ZoneCount(a, c) + ZoneCount(b, c) >= MaxZoneCopies THEN MaxZoneCopies
     ELSE ZoneCount(a, c) + ZoneCount(b, c)]

\* attached: overlays of the list that are in the container; detached:
\* overlays of the list that container.innerHTML = '' took out of the document
NoZones == [attached |-> NoCells, detached |-> NoCells]
ListedCount(dz, c) == ZoneCount(dz.attached, c) + ZoneCount(dz.detached, c)

\* lines 648-654
MaxRowsOfZones(ts) ==
  SetMax({CeilDiv(ContainerRect.height, CellHeight)}
         \cup {ts[i].gridPosition.y + 1 : i \in DOMAIN ts}) + 5

\* the cells showAllDropZones creates an overlay for
NewZoneCells(ts) ==
  {[col |-> c, row |-> r] : c \in 0 .. (MaxColsOfZones - 1),
                            r \in 0 .. (MaxRowsOfZones(ts) - 1)} \ Occupied(ts)

\* lines 626-693: one more overlay for every unoccupied cell of the grid
ShowAllDropZones(ts, dz) ==
  [dz EXCEPT !.attached = AddZones(@, [c \in NewZoneCells(ts) |-> 1])]

\* lines 711-718
\* a hideAllDropZones that leaves the zone elements in the container
HideAllDropZonesKeeps(dz) == dz

HideAllDropZones(dz) == NoZones

\* line 54, container.innerHTML = '': the overlays leave the document and
\* stay in this.dropZones
DetachZones(dz) == [attached |-> NoCells, detached |-> AddZones(dz.detached, dz.attached)]

\* lines 724-736: every overlay loses the hover class, then the first overlay
\* of the list whose data-drop-pos is the key of gridPos gets it (a detached
\* overlay precedes every attached one in the list)
HighlightedZones(dz, gridPos) ==
  IF gridPos \in DOMAIN dz.detached THEN {[cell |-> gridPos, attached |-> FALSE]}
  ELSE IF gridPos \in DOMAIN dz.attached THEN {[cell |-> gridPos, attached |-> TRUE]}
  ELSE {}

(***************************************************************************)
(* Pointer geometry.  A zone or tile of cell (col, row) is laid out at     *)
(* left + 16 + col * 524, top + row * 224, 500 wide and 200 high.          *)
(***************************************************************************)
CellLeft(col) == ContainerRect.left + ContainerPadding + col * CellWidth
CellTop(row) == ContainerRect.top + row * CellHeight
CellPoint(col, row) ==
  [x |-> CellLeft(col) + TileWidth \div 2, y |-> CellTop(row) + TileHeight \div 2]

InZoneRect(p, c) ==
  /\ p.x >= CellLeft(c.col) /\ p.x <= CellLeft(c.col) + TileWidth
  /\ p.y >= CellTop(c.row) /\ p.y <= CellTop(c.row) + TileHeight

\* a fallback that forgets the 16px padding of the container
FallbackCellNoPadding(p) ==
  [col |-> Max2(0, FloorDiv(p.x - ContainerRect.left, CellWidth)),
   row |-> Max2(0, FloorDiv(p.y - ContainerRect.top, CellHeight))]

\* the cell computed from the coordinates alone (lines 578-594)
FallbackCell(p) ==
  [col |-> Max2(0, FloorDiv(p.x - ContainerRect.left - ContainerPadding, CellWidth)),
   row |-> Max2(0, FloorDiv(p.y - ContainerRect.top, CellHeight))]

\* lines 529-595: null outside the container (left, right, above, or more
\* than 5 rows below); else the cell of the overlay under the pointer (a
\* detached overlay has an empty rectangle and is under no pointer); else
\* the cell computed from the coordinates
GetGridPositionFromEvent(p, dz) ==
  IF p.x < ContainerRect.left \/ p.x > ContainerRight \/ p.y < ContainerRect.top
  THEN NULL
  ELSE IF p.y > ContainerBottom + MaxRowsBelow * (TileHeight + GridGap)
  THEN NULL
  ELSE LET hit == {c \in DOMAIN dz.attached : InZoneRect(p, c)}
       IN  IF hit # {} THEN Some(CHOOSE c \in hit : TRUE)
           ELSE Some(FallbackCell(p))

(***************************************************************************)
(* The widgets of the tiles.  TileType and TileTimezone are the type and   *)
(* the configuration the tile of each id is created with.                  *)
(***************************************************************************)
MarkTypes == {"time", "epoch"}
ClockTypes == {"time", "epoch", "date", "timezone-converter"}

TileTimezone(id) == IF TileType(id) = "time" THEN "Europe/Berlin" ELSE "local"

\* The part of the state addTile, removeTile and loadTiles work on.
Workspace ==
  [tiles |-> tiles, elemPos |-> elemPos, pending |-> pendingGridPosition,
   requests |-> modalRequests,
   dropZones |-> dropZones, hovered |-> hovered, persistLog |-> <<>>,
   dragged |-> draggedElement, clock |-> ClockState, modules |-> modules,
   marks |-> marks, timezone |-> timezone, editModeTiles |-> editModeTiles,
   removeButtons |-> removeButtons,
   storageFull |-> storageFull, hostname |-> hostname,
   thrown |-> FALSE, errors |-> 0]

SetWorkspace(w) ==
  /\ tiles' = w.tiles
  /\ elemPos' = w.elemPos
  /\ pendingGridPosition' = w.pending
  /\ modalRequests' = w.requests
  /\ dropZones' = w.dropZones
  /\ hovered' = w.hovered
  /\ persistLog' = w.persistLog
  /\ draggedElement' = w.dragged
  /\ SetClock(w.clock)
  /\ modules' = w.modules
  /\ marks' = w.marks
  /\ timezone' = w.timezone
  /\ editModeTiles' = w.editModeTiles
  /\ removeButtons' = w.removeButtons
  /\ uncaught' = w.thrown
  /\ consoleErrors' = w.errors

\* new TimeModule / EpochModule (UUIDModule.ts 3370-3393, part_003 25-51):
\* the widget keeps the tile's data, subscribes to the clock and registers
\* with the MarkSyncManager; the other clock widgets only subscribe
CreateModule(w, id, tileMarks) ==
  IF TileType(id) \in MarkTypes
  THEN [w EXCEPT !.clock = ClockSubscribe(@, id),
                 !.modules = SyncRegister(@, id),
                 !.marks[id] = tileMarks,
                 !.timezone[id] = TileTimezone(id)]
  ELSE IF TileType(id) \in ClockTypes
  THEN [w EXCEPT !.clock = ClockSubscribe(@, id)]
  ELSE w

\* module.destroy() (UUIDModule.ts 3658-3661, part_003 243-246)
DestroyModule(w, id) ==
  IF TileType(id) \in MarkTypes
  THEN [w EXCEPT !.modules = SyncUnregister(@, id),
                 !.clock = ClockUnsubscribe(@, id),
                 !.marks[id] = <<>>]
  ELSE IF TileType(id) \in ClockTypes
  THEN [w EXCEPT !.clock = ClockUnsubscribe(@, id)]
  ELSE w

\* the hosts on which TabManager.saveToStorage re-throws (part_006 294)
DevHosts == {"localhost", "127.0.0.1"}
\* the hosts the page is served from
Hostnames == {"localhost", "pi-splay.example"}

\* the callback set by setOnTilesChange (part_002 100-105) with
\* TabManager.setTilesForActiveTab (part_006 87-97) and
\* a saveToStorage that throws a failed write again on every host
WriteThrowsOnAnyHost(w) == w.storageFull

\* TabManager.saveToStorage (part_006 289-299): the tab takes the tiles and
\* is written to localStorage; a failed write is logged, and thrown again on
\* a development host
WriteThrows(w) == w.storageFull /\ w.hostname \in DevHosts

\* the callback set by setOnTilesChange (part_002 100-105), which ends in
\* TabManager.saveToStorage: the list is handed over, and a failed write is
\* logged and perhaps thrown
OnTilesChangeCallback(w, all) ==
  LET w1 == [w EXCEPT !.persistLog = Append(@, all)]
  IN  IF ~w.storageFull THEN w1
      ELSE [w1 EXCEPT !.errors = @ + 1, !.thrown = WriteThrows(w)]

\* lines 856-861: getAllTiles, then the callback with its result.  Nothing
\* of a handler runs once an exception is on its way out of it
SaveToStorage(w) ==
  IF w.thrown THEN w
  ELSE LET all == GetAllTiles(w.tiles, w.elemPos)
       IN  OnTilesChangeCallback([w EXCEPT !.tiles = all], all)

\* this.onTilesChangeCallback(this.getAllTiles()), the call that follows
\* saveToStorage() in removeTile, updateTile and the drag commits
\* (lines 327-329, 369-371, 820-822, 987-989, 1105-1107)
NotifyTilesChange(w) ==
  IF w.thrown THEN w
  ELSE LET all == GetAllTiles(w.tiles, w.elemPos)
       IN  OnTilesChangeCallback([w EXCEPT !.tiles = all], all)

\* an addTile that copies no marks into the new widget
GetExistingMarksNone(w) == <<>>

\* lines 297-313: the marks of the first time or epoch tile that has any
GetExistingMarks(w) ==
  LET with == {i \in DOMAIN w.tiles :
                 TileType(w.tiles[i].id) \in MarkTypes /\ w.marks[w.tiles[i].id] # <<>>}
  IN  IF with = {} THEN <<>>
      ELSE w.marks[w.tiles[CHOOSE i \in with : \A j \in with : i <= j].id]

WithElem(ep, id, style) == [i \in DOMAIN ep \cup {id} |-> IF i = id THEN style ELSE ep[i]]
WithoutElem(ep, id) == [i \in DOMAIN ep \ {id} |-> ep[i]]
NoElems == [i \in {} |-> 0]

\* an addTile whose element keeps the remove button of createTileElement
ShownRemoveButtonsKept(shown, id, edit) == IF edit THEN shown \cup {id} ELSE shown \ {id}

\* lines 249-269: createTileElement appends the remove button (lines
\* 383-414), then the widget's constructor replaces the element's content
\* (this.element.innerHTML = ..., e.g. UUIDModule.ts 3441), so that the
\* querySelector of line 257 finds no button to show
ShownRemoveButtons(shown, id, edit) == shown \ {id}

\* lines 223-295.  tile = [id, gridPosition (null when the tile names none),
\* marks]; edit = this.isEditMode
AddTile(w, tile, saveToStorage, edit) ==
  LET existing == GetExistingMarks(w)
      tileMarks == IF TileType(tile.id) \in MarkTypes /\ existing # <<>>
                   THEN existing ELSE tile.marks
      usePending == ~IsNull(w.pending) /\ IsNull(tile.gridPosition)
      given == IF usePending THEN w.pending ELSE tile.gridPosition
      w1 == IF usePending THEN [w EXCEPT !.pending = NULL] ELSE w
      w2 == CreateModule(w1, tile.id, tileMarks)
      pos == IF ~IsNull(given) THEN Val(given) ELSE GetNextAvailablePosition(w2.tiles)
      w3 == [w2 EXCEPT !.tiles = Append(@, [id |-> tile.id, gridPosition |-> pos]),
                       !.elemPos = WithElem(@, tile.id, FormatStyle(pos)),
                       !.editModeTiles = IF edit THEN @ \cup {tile.id} ELSE @ \ {tile.id},
                       !.removeButtons = ShownRemoveButtons(@, tile.id, edit)]
      w4 == IF saveToStorage THEN SaveToStorage(w3) ELSE w3
  IN  IF edit /\ ~w4.thrown
      THEN [w4 EXCEPT !.dropZones = ShowAllDropZones(w4.tiles, HideAllDropZones(@)),
                      !.hovered = {}]
      ELSE w4

\* the element of tile id leaves the document: a draggedElement that is this
\* element is from now on a detached one
DetachDragged(d, id) ==
  IF ~IsNull(d) /\ Val(d).tileId = id THEN Some([Val(d) EXCEPT !.live = FALSE]) ELSE d

\* lines 315-331
RemoveTile(w, id) ==
  IF ~HasTile(w.tiles, id) THEN w
  ELSE LET w1 == DestroyModule(w, id)
           w2 == [w1 EXCEPT !.elemPos = WithoutElem(@, id),
                            !.editModeTiles = @ \ {id},
                            !.removeButtons = @ \ {id},
                            !.dragged = DetachDragged(@, id),
                            !.tiles = DeleteTile(@, id)]
       IN  NotifyTilesChange(SaveToStorage(w2))

\* a loadTiles that clears the tiles without destroying their widgets
DestroyNone(w, ids) == w

RECURSIVE DestroyAll(_, _)
DestroyAll(w, ids) ==
  IF ids = <<>> THEN w ELSE DestroyAll(DestroyModule(w, Head(ids)), Tail(ids))

RECURSIVE AddAll(_, _, _)
AddAll(w, list, edit) ==
  IF list = <<>> THEN w ELSE AddAll(AddTile(w, Head(list), FALSE, edit), Tail(list), edit)

\* lines 46-60
LoadTilesOp(w, list, edit) ==
  LET w1 == DestroyAll(w, [i \in DOMAIN w.tiles |-> w.tiles[i].id])
      w2 == [w1 EXCEPT !.tiles = <<>>,
                       !.elemPos = NoElems,
                       !.editModeTiles = {},
                       !.removeButtons = {},
                       !.dragged = IF IsNull(@) THEN @ ELSE Some([Val(@) EXCEPT !.live = FALSE]),
                       !.dropZones = DetachZones(@),
                       !.hovered = {[cell |-> h.cell, attached |-> FALSE] : h \in @}]
  IN  AddAll(w2, list, edit)

(***************************************************************************)
(* Inputs of the handlers.                                                 *)
(***************************************************************************)
\* the cells of the visible part of the grid, where the events of the model
\* point: the columns and rows the container's rectangle holds
ViewCells ==
  {[col |-> c, row |-> r] : c \in 0 .. (CeilDiv(ContainerRect.width - 32, CellWidth) - 1),
                            r \in 0 .. (FloorDiv(ContainerRect.height, CellHeight) - 1)}

\* a point left of the container
OutsidePoint == [x |-> ContainerRect.left - 1, y |-> CellTop(0) + 1]

\* the points of the container the events of the model carry
EventPoints == {CellPoint(c.col, c.row) : c \in ViewCells} \cup {OutsidePoint}

\* displacements around the drag threshold
ThresholdOffsets ==
  {[dx |-> DragThreshold - 1, dy |-> 0 - (DragThreshold - 1)],
   [dx |-> DragThreshold, dy |-> 0 - DragThreshold],
   [dx |-> DragThreshold + 1, dy |-> 0],
   [dx |-> 0, dy |-> 0 - (DragThreshold + 1)]}

MovePoints(start) ==
  EventPoints \cup {[x |-> start.x + o.dx, y |-> start.y + o.dy] : o \in ThresholdOffsets}

\* what a pointer-down hits: the plain area of a tile; an interactive control
\* inside a tile (an element whose own tag is button, select, input or a, or
\* an element on or inside a calendar day, an option or a label); an element
\* nested inside a button, select, input or a whose own tag is another one;
\* or no tile at all
Targets ==
  {[kind |-> k, id |-> i] : k \in {"tile", "control", "nested"}, i \in TileIdsIn(tiles)}
  \cup {[kind |-> "background", id |-> 0]}

\* lines 887-903 and 1028-1044: the target's own tagName is looked up in
\* interactiveElements; calendar days, options and labels are found with
\* closest()
IsInteractive(target) == target.kind = "control"

\* lines 881-884 and 1023-1026: target.closest('[data-tile-id]')
ClosestTile(target) == IF target.kind = "background" THEN NULL ELSE Some(target.id)

\* where the element of tile id is on screen
PointOfTile(id) ==
  LET pos == GetCurrentGridPosition(elemPos[id]) IN CellPoint(pos.x, pos.y)

\* the tile lists loadTiles is called with: tiles of distinct ids, each
\* either naming a cell of its own or no position
RECURSIVE SeqsOver(_, _)
SeqsOver(S, n) ==
  IF n = 0 THEN {<<>>}
  ELSE LET shorter == SeqsOver(S, n - 1)
       IN  shorter \cup {Append(q, e) : q \in {r \in shorter : Len(r) = n - 1}, e \in S}

LoadableTiles ==
  {[id |-> i, gridPosition |-> g, marks |-> <<>>] :
     i \in TileIds,
     g \in {NULL} \cup {Some([x |-> c.col, y |-> c.row]) : c \in ViewCells}}

LoadableLists ==
  {l \in SeqsOver(LoadableTiles, MaxTiles) :
     \A i, j \in DOMAIN l :
       i < j => /\ l[i].id < l[j].id
                /\ (IsNull(l[i].gridPosition) \/ l[i].gridPosition # l[j].gridPosition)
                /\ IsNull(l[i].gridPosition) = IsNull(l[j].gridPosition)}

(***************************************************************************)
(* Initial state: the managers as constructed, no tile loaded yet, on a    *)
(* page served from host.                                                  *)
(***************************************************************************)
InitAt(host) ==
  /\ isEditMode = FALSE
  /\ tiles = <<>>
  /\ elemPos = NoElems
  /\ draggedElement = NULL
  /\ isMouseDragging = FALSE
  /\ isTouchDragging = FALSE
  /\ justFinishedDrag = FALSE
  /\ cooldownTimers = 0
  /\ mouseStart = [x |-> 0, y |-> 0]
  /\ touchStart = [x |-> 0, y |-> 0]
  /\ lastHighlightedGridPos = NULL
  /\ dropZones = NoZones
  /\ hovered = {}
  /\ pendingGridPosition = NULL
  /\ modalRequests = <<>>
  /\ persistLog = <<>>
  /\ editModeTiles = {}
  /\ removeButtons = {}
  /\ storageFull = FALSE
  /\ hostname = host
  /\ uncaught = FALSE
  /\ consoleErrors = 0
  /\ subscribers = {}
  /\ isRunning = FALSE
  /\ timeoutId = NULL
  /\ intervalId = NULL
  /\ timers = {}
  /\ tickCount = [s \in ModuleIds |-> 0]
  /\ modules = <<>>
  /\ timezone = [m \in ModuleIds |-> "local"]
  /\ marks = [m \in ModuleIds |-> <<>>]
  /\ now = 0
  /\ callLog = <<>>
  /\ scrollTop = [m \in ModuleIds |-> 0]
  /\ scrollPending = {}
  /\ scrollRange = [m \in ModuleIds |-> MaxScrollOffset]
  /\ hasMoved = [m \in ModuleIds |-> FALSE]
  /\ calendar = NULL
  /\ occupied = {}
  /\ nextPosition = NULL
  /\ pointer = NULL
  /\ gridCell = NULL

\* the page as deployed
Init == InitAt("pi-splay.example")

\* the add-tile modal is open on a drop zone's request: the page below it
\* takes no input until the modal closes
ModalOpen == ~IsNull(pendingGridPosition)

dragVars == <<draggedElement, isMouseDragging, isTouchDragging, justFinishedDrag,
              cooldownTimers, mouseStart, touchStart, lastHighlightedGridPos>>

(***************************************************************************)
(* TileManager: edit mode and the tile set.                                *)
(***************************************************************************)
\* the part of the state toggleEditMode works on
EditState ==
  [isEditMode |-> isEditMode, editModeTiles |-> editModeTiles,
   removeButtons |-> removeButtons, dropZones |-> dropZones,
   hovered |-> hovered, draggedElement |-> draggedElement,
   isMouseDragging |-> isMouseDragging, justFinishedDrag |-> justFinishedDrag]

\* a toggleEditMode whose exit branch leaves the overlays where they are
ToggleEditModeKeepsZones(e, ts, ep) ==
  IF ~e.isEditMode
  THEN [e EXCEPT !.isEditMode = TRUE,
                 !.editModeTiles = DOMAIN ep,
                 !.removeButtons = DOMAIN ep,
                 !.dropZones = ShowAllDropZones(ts, @)]
  ELSE [e EXCEPT !.isEditMode = FALSE,
                 !.editModeTiles = {},
                 !.removeButtons = {},
                 !.draggedElement = NULL,
                 !.isMouseDragging = FALSE,
                 !.justFinishedDrag = FALSE]

\* lines 112-217, on the tiles ts with the elements ep in the container: the
\* flag flips; entering, every tile element becomes draggable and shows its
\* remove button and the drop zones are shown; leaving, the elements lose
\* both, the zones are hidden and the drag state of lines 203-206 is reset
ToggleEditModeOp(e, ts, ep) ==
  IF ~e.isEditMode
  THEN [e EXCEPT !.isEditMode = TRUE,
                 !.editModeTiles = DOMAIN ep,
                 !.removeButtons = DOMAIN ep,
                 !.dropZones = ShowAllDropZones(ts, @)]
  ELSE [e EXCEPT !.isEditMode = FALSE,
                 !.editModeTiles = {},
                 !.removeButtons = {},
                 !.dropZones = HideAllDropZones(@),
                 !.hovered = {},
                 !.draggedElement = NULL,
                 !.isMouseDragging = FALSE,
                 !.justFinishedDrag = FALSE]

\* line 64-66: a click on the edit-mode button
ToggleEditMode ==
  /\ ~ModalOpen
  /\ LET e == ToggleEditModeOp(EditState, tiles, elemPos)
     IN  /\ isEditMode' = e.isEditMode
         /\ editModeTiles' = e.editModeTiles
         /\ removeButtons' = e.removeButtons
         /\ dropZones' = e.dropZones
         /\ hovered' = e.hovered
         /\ draggedElement' = e.draggedElement
         /\ isMouseDragging' = e.isMouseDragging
         /\ justFinishedDrag' = e.justFinishedDrag
  /\ persistLog' = <<>>
  /\ uncaught' = FALSE
  /\ consoleErrors' = 0
  /\ UNCHANGED <<tiles, elemPos, isTouchDragging, cooldownTimers, mouseStart, touchStart,
                 lastHighlightedGridPos, pendingGridPosition, modalRequests, clockVars, syncVars,
                 envVars, scanVars, widgetVars>>

\* part_002 336-349: the modal's Add button: addTile(newTile) with a fresh
\* id and no gridPosition, then closeModal()
AddTileFromModal(id) ==
  /\ ~HasTile(tiles, id)
  /\ LET w == AddTile(Workspace, [id |-> id, gridPosition |-> NULL, marks |-> <<>>],
                      TRUE, isEditMode)
     IN  SetWorkspace(IF w.thrown THEN w
                      ELSE [w EXCEPT !.pending = NULL, !.requests = <<>>])
  /\ UNCHANGED <<isEditMode, isMouseDragging, isTouchDragging, justFinishedDrag,
                 cooldownTimers, mouseStart, touchStart, lastHighlightedGridPos,
                 tickCount, now, callLog>>
  /\ UNCHANGED <<envVars, scanVars, widgetVars>>

\* part_002 318-324: the modal closed without adding
CloseModal ==
  /\ ModalOpen
  /\ pendingGridPosition' = NULL
  /\ modalRequests' = <<>>
  /\ persistLog' = <<>>
  /\ uncaught' = FALSE
  /\ consoleErrors' = 0
  /\ UNCHANGED <<isEditMode, tiles, elemPos, dragVars, dropZones, hovered,
                 clockVars, syncVars>>
  /\ UNCHANGED <<editModeTiles, removeButtons, envVars, scanVars, widgetVars>>

\* lines 46-60, called on a tab change (part_002 107-112)
LoadTiles(list) ==
  /\ ~ModalOpen
  /\ SetWorkspace(LoadTilesOp(Workspace, list, isEditMode))
  /\ UNCHANGED <<isEditMode, isMouseDragging, isTouchDragging, justFinishedDrag,
                 cooldownTimers, mouseStart, touchStart, lastHighlightedGridPos,
                 tickCount, now, callLog>>
  /\ UNCHANGED <<envVars, scanVars, widgetVars>>

\* lines 404-411 and 148-155: a click on the remove button that a tile's
\* element shows
RemoveButton(id) ==
  /\ ~ModalOpen
  /\ id \in removeButtons
  /\ HasTile(tiles, id)
  /\ SetWorkspace(RemoveTile(Workspace, id))
  /\ UNCHANGED <<isEditMode, isMouseDragging, isTouchDragging, justFinishedDrag,
                 cooldownTimers, mouseStart, touchStart, lastHighlightedGridPos,
                 tickCount, now, callLog>>
  /\ UNCHANGED <<envVars, scanVars, widgetVars>>

\* lines 333-373 with a data update: the tile keeps its id and position
UpdateTile(id) ==
  /\ ~ModalOpen
  /\ HasTile(tiles, id)
  /\ SetWorkspace(NotifyTilesChange(SaveToStorage(Workspace)))
  /\ UNCHANGED <<isEditMode, isMouseDragging, isTouchDragging, justFinishedDrag,
                 cooldownTimers, mouseStart, touchStart, lastHighlightedGridPos,
                 tickCount, now, callLog>>
  /\ UNCHANGED <<envVars, scanVars, widgetVars>>

\* a click listener of the zones that does not look at the drag state
ClickIsHandledAlways == TRUE

\* line 679: the click is handled only if not dragging
ClickIsHandled == IsNull(draggedElement) /\ ~isMouseDragging /\ ~isTouchDragging

\* lines 677-687 and 697-701: a click on an attached drop zone records the
\* cell as the pending position and dispatches showAddTileModal with it
DropZoneClick(cell) ==
  /\ ~ModalOpen
  /\ cell \in DOMAIN dropZones.attached
  /\ IF ClickIsHandled
     THEN /\ pendingGridPosition' = Some([x |-> cell.col, y |-> cell.row])
          /\ modalRequests' = Append(modalRequests, [x |-> cell.col, y |-> cell.row])
     ELSE UNCHANGED <<pendingGridPosition, modalRequests>>
  /\ persistLog' = <<>>
  /\ uncaught' = FALSE
  /\ consoleErrors' = 0
  /\ UNCHANGED <<isEditMode, tiles, elemPos, dragVars, dropZones, hovered,
                 clockVars, syncVars>>
  /\ UNCHANGED <<editModeTiles, removeButtons, envVars, scanVars, widgetVars>>

(***************************************************************************)
(* TileManager: the drag handlers.                                         *)
(***************************************************************************)
\* a position with the column and the row exchanged
CellToPositionSwapped(gridPos) == [x |-> gridPos.row, y |-> gridPos.col]

\* { x: gridPos.col, y: gridPos.row } (lines 816, 983, 1101)
CellToPosition(gridPos) == [x |-> gridPos.col, y |-> gridPos.row]

\* the commit shared by the three modalities (lines 814-822, 981-989,
\* 1099-1107): the dragged element's style and the tile's gridPosition are
\* set to the cell, then saveToStorage() and the change callback
CommitMove(w, d, gridPos) ==
  IF ~HasTile(w.tiles, d.tileId) THEN w
  ELSE LET pos == CellToPosition(gridPos)
           w1 == [w EXCEPT
                    !.elemPos = IF d.live THEN [@ EXCEPT ![d.tileId] = FormatStyle(pos)] ELSE @,
                    !.tiles[TileIndex(w.tiles, d.tileId)].gridPosition = pos]
       IN  NotifyTilesChange(SaveToStorage(w1))

\* a mouse path whose test of the tile's position is inverted
MouseCommitInverted(w, d, gridPos) ==
  IF ~HasTile(w.tiles, d.tileId) THEN w
  ELSE IF TileOf(w.tiles, d.tileId).gridPosition = CellToPosition(gridPos)
  THEN CommitMove(w, d, gridPos)
  ELSE w

\* lines 975-990: the mouse path commits only when the cell differs from the
\* tile's position
MouseCommit(w, d, gridPos) ==
  IF ~HasTile(w.tiles, d.tileId) THEN w
  ELSE IF TileOf(w.tiles, d.tileId).gridPosition # CellToPosition(gridPos)
  THEN CommitMove(w, d, gridPos)
  ELSE w

\* the commit of each modality on the element d and the cell gridPos:
\* handleMouseEnd has cleared draggedElement (line 966) before it commits
\* (lines 974-990), handleTouchEnd commits as it is (lines 1092-1108),
\* handleDrop has hidden the zones (line 799) before it commits (808-823)
MouseRelease(w, d, gridPos) == MouseCommit([w EXCEPT !.dragged = NULL], d, gridPos)
TouchRelease(w, d, gridPos) == CommitMove(w, d, gridPos)
DropRelease(w, d, gridPos) ==
  CommitMove([w EXCEPT !.dropZones = HideAllDropZones(@), !.hovered = {}], d, gridPos)

\* the cell a release commits to (lines 806, 972, 1090)
ReleaseCell(p) ==
  IF ~IsNull(lastHighlightedGridPos) THEN lastHighlightedGridPos
  ELSE GetGridPositionFromEvent(p, dropZones)

\* a threshold test that takes the threshold itself as a drag
ExceedsThresholdInclusive(start, p) ==
  Abs(p.y - start.y) >= DragThreshold \/ Abs(p.x - start.x) >= DragThreshold

\* lines 926-930 and 1058-1062: deltaY > 10 || deltaX > 10
ExceedsThreshold(start, p) ==
  Abs(p.y - start.y) > DragThreshold \/ Abs(p.x - start.x) > DragThreshold

\* lines 875-918
HandleMouseStart(target) ==
  /\ ~ModalOpen
  /\ IF ~isEditMode
     THEN UNCHANGED <<justFinishedDrag, mouseStart, draggedElement, isMouseDragging>>
     ELSE IF justFinishedDrag
     THEN /\ justFinishedDrag' = FALSE
          /\ UNCHANGED <<mouseStart, draggedElement, isMouseDragging>>
     ELSE IF IsNull(ClosestTile(target)) \/ IsInteractive(target)
     THEN UNCHANGED <<justFinishedDrag, mouseStart, draggedElement, isMouseDragging>>
     ELSE /\ mouseStart' = PointOfTile(target.id)
          /\ draggedElement' = Some([tileId |-> target.id, live |-> TRUE])
          /\ isMouseDragging' = FALSE
          /\ UNCHANGED justFinishedDrag
  /\ persistLog' = <<>>
  /\ uncaught' = FALSE
  /\ consoleErrors' = 0
  /\ UNCHANGED <<isEditMode, tiles, elemPos, isTouchDragging, cooldownTimers, touchStart,
                 lastHighlightedGridPos, dropZones, hovered, pendingGridPosition, modalRequests,
                 clockVars, syncVars>>
  /\ UNCHANGED <<editModeTiles, removeButtons, envVars, scanVars, widgetVars>>

\* lines 920-949
HandleMouseMove(p) ==
  /\ ~ModalOpen
  /\ IF ~isEditMode \/ IsNull(draggedElement)
     THEN UNCHANGED <<isMouseDragging, dropZones, lastHighlightedGridPos, hovered>>
     ELSE LET starts == ExceedsThreshold(mouseStart, p) /\ ~isMouseDragging
              zones == IF starts THEN ShowAllDropZones(tiles, dropZones) ELSE dropZones
              dragging == isMouseDragging \/ starts
              gridPos == GetGridPositionFromEvent(p, zones)
          IN  /\ isMouseDragging' = dragging
              /\ dropZones' = zones
              /\ IF dragging /\ ~IsNull(gridPos)
                 THEN /\ lastHighlightedGridPos' = gridPos
                      /\ hovered' = HighlightedZones(zones, Val(gridPos))
                 ELSE UNCHANGED <<lastHighlightedGridPos, hovered>>
  /\ persistLog' = <<>>
  /\ uncaught' = FALSE
  /\ consoleErrors' = 0
  /\ UNCHANGED <<isEditMode, tiles, elemPos, draggedElement, isTouchDragging,
                 justFinishedDrag, cooldownTimers, mouseStart, touchStart,
                 pendingGridPosition, modalRequests, clockVars, syncVars>>
  /\ UNCHANGED <<editModeTiles, removeButtons, envVars, scanVars, widgetVars>>

\* a mouseup that cancels the event whenever a tile was pressed
MouseEndPreventsDefaultAlways == ~IsNull(draggedElement)

\* lines 953-954, 964-966: mouseup calls e.preventDefault() and
\* e.stopPropagation() only if (wasDragging && draggedTile)
MouseEndPreventsDefault == isMouseDragging /\ ~IsNull(draggedElement)

\* lines 1082-1085: touchend calls e.preventDefault() only with a dragged
\* element and isTouchDragging
TouchEndPreventsDefault == ~IsNull(draggedElement) /\ isTouchDragging

\* lines 951-1015
HandleMouseEnd(p) ==
  LET d == draggedElement
      committing == isMouseDragging /\ ~IsNull(d)
      gridPos == ReleaseCell(p)
      w0 == [Workspace EXCEPT !.dragged = NULL]
      w1 == IF committing /\ ~IsNull(gridPos)
            THEN MouseRelease(Workspace, Val(d), Val(gridPos)) ELSE w0
      \* the clean-up of lines 995-1013 runs unless the commit threw
      cleaning == committing /\ ~w1.thrown
      w2 == IF cleaning /\ isEditMode
            THEN [w1 EXCEPT !.dropZones = ShowAllDropZones(w1.tiles, @)]
            ELSE w1
  IN  /\ ~ModalOpen
      /\ committing => cooldownTimers < MaxCooldownTimers
      /\ SetWorkspace(w2)
      /\ isMouseDragging' = FALSE
      /\ lastHighlightedGridPos' = IF cleaning THEN NULL ELSE lastHighlightedGridPos
      /\ justFinishedDrag' = IF cleaning THEN TRUE ELSE justFinishedDrag
      /\ cooldownTimers' = IF cleaning THEN cooldownTimers + 1 ELSE cooldownTimers
      /\ UNCHANGED <<isEditMode, isTouchDragging, mouseStart, touchStart,
                     tickCount, now, callLog>>
      /\ UNCHANGED <<envVars, scanVars, widgetVars>>

\* lines 1011-1013: the 300 ms timeout set by handleMouseEnd fires
CooldownElapsed ==
  /\ cooldownTimers > 0
  /\ cooldownTimers' = cooldownTimers - 1
  /\ justFinishedDrag' = FALSE
  /\ persistLog' = <<>>
  /\ uncaught' = FALSE
  /\ consoleErrors' = 0
  /\ UNCHANGED <<isEditMode, tiles, elemPos, draggedElement, isMouseDragging,
                 isTouchDragging, mouseStart, touchStart, lastHighlightedGridPos,
                 dropZones, hovered, pendingGridPosition, modalRequests, clockVars, syncVars>>
  /\ UNCHANGED <<editModeTiles, removeButtons, envVars, scanVars, widgetVars>>

\* a touchstart that arms in any mode
TouchArmsInAnyMode(target) == ~IsNull(ClosestTile(target)) /\ ~IsInteractive(target)

\* lines 1018-1033: the touch arms a session in edit mode, on a tile, outside
\* its interactive controls
TouchArms(target) ==
  isEditMode /\ ~IsNull(ClosestTile(target)) /\ ~IsInteractive(target)

\* lines 1017-1052
HandleTouchStart(target) ==
  /\ ~ModalOpen
  /\ IF ~TouchArms(target)
     THEN UNCHANGED <<touchStart, draggedElement, isTouchDragging>>
     ELSE /\ touchStart' = PointOfTile(target.id)
          /\ draggedElement' = Some([tileId |-> target.id, live |-> TRUE])
          /\ isTouchDragging' = FALSE
  /\ persistLog' = <<>>
  /\ uncaught' = FALSE
  /\ consoleErrors' = 0
  /\ UNCHANGED <<isEditMode, tiles, elemPos, isMouseDragging, justFinishedDrag,
                 cooldownTimers, mouseStart, lastHighlightedGridPos, dropZones, hovered,
                 pendingGridPosition, modalRequests, clockVars, syncVars>>
  /\ UNCHANGED <<editModeTiles, removeButtons, envVars, scanVars, widgetVars>>

\* lines 1054-1079
HandleTouchMove(p) ==
  /\ ~ModalOpen
  /\ IF IsNull(draggedElement)
     THEN UNCHANGED <<isTouchDragging, dropZones, lastHighlightedGridPos, hovered>>
     ELSE LET starts == ExceedsThreshold(touchStart, p) /\ ~isTouchDragging
              zones == IF starts THEN ShowAllDropZones(tiles, dropZones) ELSE dropZones
              dragging == isTouchDragging \/ starts
              gridPos == GetGridPositionFromEvent(p, zones)
          IN  /\ isTouchDragging' = dragging
              /\ dropZones' = zones
              /\ IF dragging /\ ~IsNull(gridPos)
                 THEN /\ lastHighlightedGridPos' = gridPos
                      /\ hovered' = HighlightedZones(zones, Val(gridPos))
                 ELSE UNCHANGED <<lastHighlightedGridPos, hovered>>
  /\ persistLog' = <<>>
  /\ uncaught' = FALSE
  /\ consoleErrors' = 0
  /\ UNCHANGED <<isEditMode, tiles, elemPos, draggedElement, isMouseDragging,
                 justFinishedDrag, cooldownTimers, mouseStart, touchStart,
                 pendingGridPosition, modalRequests, clockVars, syncVars>>
  /\ UNCHANGED <<editModeTiles, removeButtons, envVars, scanVars, widgetVars>>

\* lines 1081-1126
HandleTouchEnd(p) ==
  /\ ~ModalOpen
  /\ IF IsNull(draggedElement)
     THEN /\ persistLog' = <<>>
          /\ uncaught' = FALSE
          /\ consoleErrors' = 0
          /\ UNCHANGED <<tiles, elemPos, draggedElement, isTouchDragging,
                         lastHighlightedGridPos, dropZones, hovered, pendingGridPosition, modalRequests,
                         subscribers, isRunning, timeoutId, intervalId, timers,
                         modules, marks, timezone, editModeTiles, removeButtons>>
     ELSE LET d == draggedElement
              gridPos == ReleaseCell(p)
              w1 == IF isTouchDragging /\ ~IsNull(gridPos)
                    THEN TouchRelease(Workspace, Val(d), Val(gridPos)) ELSE Workspace
              \* lines 1112-1125 run unless the commit threw
              w2 == IF w1.thrown THEN w1
                    ELSE IF isTouchDragging
                    THEN [w1 EXCEPT !.dropZones = HideAllDropZones(@), !.hovered = {},
                                    !.dragged = NULL]
                    ELSE [w1 EXCEPT !.dragged = NULL]
          IN  /\ SetWorkspace(w2)
              /\ lastHighlightedGridPos' =
                   IF isTouchDragging /\ ~w1.thrown THEN NULL ELSE lastHighlightedGridPos
              /\ isTouchDragging' = IF w1.thrown THEN isTouchDragging ELSE FALSE
  /\ UNCHANGED <<isEditMode, isMouseDragging, justFinishedDrag, cooldownTimers,
                 mouseStart, touchStart, tickCount, now, callLog>>
  /\ UNCHANGED <<envVars, scanVars, widgetVars>>

\* lines 517-527: dragover on the container, of any native drag
HandleDragOver(p) ==
  /\ ~ModalOpen
  /\ LET gridPos == GetGridPositionFromEvent(p, dropZones)
     IN  IF ~IsNull(gridPos)
         THEN /\ lastHighlightedGridPos' = gridPos
              /\ hovered' = HighlightedZones(dropZones, Val(gridPos))
         ELSE UNCHANGED <<lastHighlightedGridPos, hovered>>
  /\ persistLog' = <<>>
  /\ uncaught' = FALSE
  /\ consoleErrors' = 0
  /\ UNCHANGED <<isEditMode, tiles, elemPos, draggedElement, isMouseDragging,
                 isTouchDragging, justFinishedDrag, cooldownTimers, mouseStart,
                 touchStart, dropZones, pendingGridPosition, modalRequests, clockVars, syncVars>>
  /\ UNCHANGED <<editModeTiles, removeButtons, envVars, scanVars, widgetVars>>

\* the cell a drop commits to (line 806), the zones having been hidden
\* (line 799)
DropCell(p) ==
  IF ~IsNull(lastHighlightedGridPos) THEN lastHighlightedGridPos
  ELSE GetGridPositionFromEvent(p, HideAllDropZones(dropZones))

\* lines 797-833: drop on the container
HandleDrop(p) ==
  /\ ~ModalOpen
  /\ LET w0 == [Workspace EXCEPT !.dropZones = HideAllDropZones(@), !.hovered = {}]
         gridPos == DropCell(p)
     IN  IF IsNull(draggedElement)
         THEN /\ SetWorkspace(w0)
              /\ UNCHANGED lastHighlightedGridPos
         ELSE LET w1 == IF ~IsNull(gridPos)
                        THEN DropRelease(Workspace, Val(draggedElement), Val(gridPos))
                        ELSE w0
              IN  /\ SetWorkspace(w1)
                  \* line 827 runs unless the commit threw
                  /\ lastHighlightedGridPos' =
                       IF w1.thrown THEN lastHighlightedGridPos ELSE NULL
  /\ UNCHANGED <<isEditMode, isMouseDragging, isTouchDragging, justFinishedDrag,
                 cooldownTimers, mouseStart, touchStart, tickCount, now, callLog>>
  /\ UNCHANGED <<envVars, scanVars, widgetVars>>

(***************************************************************************)
(* ClockManager driven directly: subscribe and unsubscribe calls and the   *)
(* browser running the timer callbacks.  A callback runs to its end before *)
(* anything else does; no onTick of the repository calls back into the     *)
(* manager.                                                                *)
(***************************************************************************)
\* a notifySubscribers without the try / catch: the forEach ends at the
\* first subscriber whose onTick throws (the subscribers taken in the order
\* of their ids) and the exception leaves the callback
NotifySubscribersNoCatch(tc, subs, throwers) ==
  LET reached == {s \in subs : \A t \in throwers \cap subs : s <= t}
  IN  [tickCount |-> [s \in DOMAIN tc |-> IF s \in reached THEN tc[s] + 1 ELSE tc[s]],
       errors |-> 0,
       thrown |-> throwers \cap subs # {}]

\* lines 105-113: each subscriber's onTick is called once, inside a try; the
\* exception of a subscriber of throwers is caught and logged
NotifySubscribers(tc, subs, throwers) ==
  [tickCount |-> [s \in DOMAIN tc |-> IF s \in subs THEN tc[s] + 1 ELSE tc[s]],
   errors |-> Cardinality(throwers \cap subs),
   thrown |-> FALSE]

CanTick == \A s \in subscribers : tickCount[s] < MaxTicks

\* lines 28-35
Subscribe(s) ==
  /\ SetClock(ClockSubscribe(ClockState, s))
  /\ uncaught' = FALSE
  /\ consoleErrors' = 0
  /\ UNCHANGED <<tickCount, tmVars, syncVars, envVars, scanVars, widgetVars>>

\* lines 40-47
Unsubscribe(s) ==
  /\ SetClock(ClockUnsubscribe(ClockState, s))
  /\ uncaught' = FALSE
  /\ consoleErrors' = 0
  /\ UNCHANGED <<tickCount, tmVars, syncVars, envVars, scanVars, widgetVars>>

\* lines 91-99: the one-shot timeout fires: the subscribers are notified and
\* then the interval is started; throwers are the subscribers whose onTick
\* throws this time
TimeoutCallback(throwers) ==
  /\ CanTick
  /\ LET r == NotifySubscribers(tickCount, subscribers, throwers)
     IN  /\ tickCount' = r.tickCount
         /\ consoleErrors' = r.errors
         /\ uncaught' = r.thrown
         /\ \E t \in timers :
              /\ t.kind = "timeout"
              /\ LET c1 == [ClockState EXCEPT !.timers = @ \ {t}]
                     id == NewTimerId(c1)
                 IN  SetClock(IF r.thrown THEN c1
                              ELSE [c1 EXCEPT !.intervalId = Some(id),
                                              !.timers = @ \cup {Timer(id, "interval", TickInterval, now)}])
  /\ UNCHANGED <<tmVars, syncVars, envVars, scanVars, widgetVars>>

\* lines 96-98: the interval fires
IntervalCallback(throwers) ==
  /\ CanTick
  /\ \E t \in timers : t.kind = "interval"
  /\ LET r == NotifySubscribers(tickCount, subscribers, throwers)
     IN  /\ tickCount' = r.tickCount
         /\ consoleErrors' = r.errors
         /\ uncaught' = r.thrown
  /\ UNCHANGED <<subscribers, isRunning, timeoutId, intervalId, timers, tmVars, syncVars,
                 envVars, scanVars, widgetVars>>

NextClock ==
  \/ \E s \in 1 .. MaxSubscribers : Subscribe(s)
  \/ \E s \in 1 .. MaxSubscribers : Unsubscribe(s)
  \/ \E throwers \in SUBSET subscribers : TimeoutCallback(throwers)
  \/ \E throwers \in SUBSET subscribers : IntervalCallback(throwers)

SpecClock == Init /\ [][NextClock]_vars

(***************************************************************************)
(* ClockManager running for ever: the same callbacks with each             *)
(* subscriber's count of ticks kept modulo MaxTicks + 1, so that no bound  *)
(* ends the ticks.  The browser runs the callback of a live timer sooner   *)
(* or later: the ticks are weakly fair.                                    *)
(***************************************************************************)
CountModulo(tc) == [s \in DOMAIN tc |-> tc[s] % (MaxTicks + 1)]

\* lines 91-99
FairTimeout(throwers) ==
  /\ LET r == NotifySubscribers(tickCount, subscribers, throwers)
     IN  /\ tickCount' = CountModulo(r.tickCount)
         /\ consoleErrors' = r.errors
         /\ uncaught' = r.thrown
         /\ \E t \in timers :
              /\ t.kind = "timeout"
              /\ LET c1 == [ClockState EXCEPT !.timers = @ \ {t}]
                     id == NewTimerId(c1)
                 IN  SetClock(IF r.thrown THEN c1
                              ELSE [c1 EXCEPT !.intervalId = Some(id),
                                              !.timers = @ \cup {Timer(id, "interval", TickInterval, now)}])
  /\ UNCHANGED <<tmVars, syncVars, envVars, scanVars, widgetVars>>

\* lines 96-98
FairInterval(throwers) ==
  /\ \E t \in timers : t.kind = "interval"
  /\ LET r == NotifySubscribers(tickCount, subscribers, throwers)
     IN  /\ tickCount' = CountModulo(r.tickCount)
         /\ consoleErrors' = r.errors
         /\ uncaught' = r.thrown
  /\ UNCHANGED <<subscribers, isRunning, timeoutId, intervalId, timers, tmVars, syncVars,
                 envVars, scanVars, widgetVars>>

TimerFires ==
  \E throwers \in SUBSET subscribers : FairTimeout(throwers) \/ FairInterval(throwers)

NextFairClock ==
  \/ \E s \in 1 .. MaxSubscribers : Subscribe(s)
  \/ \E s \in 1 .. MaxSubscribers : Unsubscribe(s)
  \/ \E throwers \in SUBSET subscribers : FairTimeout(throwers)
  \/ \E throwers \in SUBSET subscribers : FairInterval(throwers)

SpecFairClock == Init /\ [][NextFairClock]_vars /\ WF_vars(TimerFires)

(***************************************************************************)
(* ClockManager with subscribers of any kind: an onTick may call           *)
(* unsubscribe on its own subscriber (the type ClockSubscriber, part_010   *)
(* 5-7, allows any handler; none of the repository's widgets does so).     *)
(* leavers are the subscribers whose onTick unsubscribes this time.  A Set *)
(* iterated by forEach still visits the entries that follow a deleted one. *)
(***************************************************************************)
RECURSIVE UnsubscribeAll(_, _)
UnsubscribeAll(c, leavers) ==
  IF leavers = {} THEN c
  ELSE LET s == CHOOSE x \in leavers : \A y \in leavers : x <= y
       IN  UnsubscribeAll(ClockUnsubscribe(c, s), leavers \ {s})

\* lines 91-99: the pass over the subscribers, in which the leavers
\* unsubscribe (lines 40-47), and after it the setInterval of line 96
TimeoutCallbackLeaving(throwers, leavers) ==
  /\ CanTick
  /\ LET r == NotifySubscribers(tickCount, subscribers, throwers)
     IN  /\ tickCount' = r.tickCount
         /\ consoleErrors' = r.errors
         /\ uncaught' = r.thrown
         /\ \E t \in timers :
              /\ t.kind = "timeout"
              /\ LET c1 == UnsubscribeAll([ClockState EXCEPT !.timers = @ \ {t}], leavers)
                     id == NewTimerId(c1)
                 IN  SetClock([c1 EXCEPT !.intervalId = Some(id),
                                         !.timers = @ \cup {Timer(id, "interval", TickInterval, now)}])
  /\ UNCHANGED <<tmVars, syncVars, envVars, scanVars, widgetVars>>

\* lines 96-98: a tick of an interval in which the leavers unsubscribe
IntervalCallbackLeaving(throwers, leavers) ==
  /\ CanTick
  /\ \E t \in timers : t.kind = "interval"
  /\ LET r == NotifySubscribers(tickCount, subscribers, throwers)
     IN  /\ tickCount' = r.tickCount
         /\ consoleErrors' = r.errors
         /\ uncaught' = r.thrown
  /\ SetClock(UnsubscribeAll(ClockState, leavers))
  /\ UNCHANGED <<tmVars, syncVars, envVars, scanVars, widgetVars>>

NextLeaving ==
  \/ \E s \in 1 .. MaxSubscribers : Subscribe(s)
  \/ \E s \in 1 .. MaxSubscribers : Unsubscribe(s)
  \/ \E throwers, leavers \in SUBSET subscribers : TimeoutCallbackLeaving(throwers, leavers)
  \/ \E throwers, leavers \in SUBSET subscribers : IntervalCallbackLeaving(throwers, leavers)

SpecLeaving == Init /\ [][NextLeaving]_vars

(***************************************************************************)
(* ClockManager against the wall clock: time passes in steps that reach    *)
(* the milliseconds 0, 1, 2, 497 .. 501, 998 and 999, and the browser runs *)
(* a timer's callback no earlier than its delay after the call that        *)
(* created it.                                                             *)
(***************************************************************************)
MaxAlignNow == 3200
AlignSteps == {499, 501, 999}

\* the wall clock moves on by d ms
Elapse(d) ==
  /\ now + d <= MaxAlignNow
  /\ now' = now + d
  /\ UNCHANGED <<tmVars, clockVars, modules, timezone, marks, callLog, envVars, scanVars,
                 outVars, widgetVars>>

\* setTimeout / setInterval: the callback of t may run from now on
TimerDue(t) == now >= t.at + t.delay

AlignedTimeout(throwers) ==
  /\ \E t \in timers : t.kind = "timeout" /\ TimerDue(t)
  /\ TimeoutCallback(throwers)

AlignedInterval(throwers) ==
  /\ \E t \in timers : t.kind = "interval" /\ TimerDue(t)
  /\ IntervalCallback(throwers)

NextAlign ==
  \/ \E s \in 1 .. MaxSubscribers : Subscribe(s)
  \/ \E s \in 1 .. MaxSubscribers : Unsubscribe(s)
  \/ \E d \in AlignSteps : Elapse(d)
  \/ \E throwers \in SUBSET subscribers : AlignedTimeout(throwers)
  \/ \E throwers \in SUBSET subscribers : AlignedInterval(throwers)

SpecAlign == Init /\ [][NextAlign]_vars

(***************************************************************************)
(* Time marks (src/unnamed/part_009).  An instant is a number of           *)
(* milliseconds since the epoch.  LocalZone is the zone the browser runs   *)
(* in; ZoneOffset is a zone's offset from UTC.                             *)
(***************************************************************************)
LocalZone == "Europe/Berlin"

ZoneOffset(tz) ==
  CASE tz = "Europe/Berlin" -> 3600000
    [] tz = "Asia/Tokyo" -> 32400000
    [] OTHER -> 0

\* the zones a widget is configured with
Timezones == {"local", "utc", "Europe/Berlin", "Asia/Tokyo"}

\* lines 50-82, called at instant t.  For an IANA zone the zone's wall clock
\* is formatted down to the second and the string is parsed back by
\* new Date(), which reads it as a time of the browser's zone
GetTimeForTimezone(tz, t) ==
  IF tz = "local" \/ tz = "utc" THEN t
  ELSE FloorDiv(t + ZoneOffset(tz), 1000) * 1000 - ZoneOffset(LocalZone)

\* formatTime(date, true, useUTC) (lines 23-48): the time of day of the date,
\* in UTC or in the browser's zone, as milliseconds since midnight
FormatTime(date, useUTC) ==
  (date + (IF useUTC THEN 0 ELSE ZoneOffset(LocalZone))) % 86400000

\* lines 84-91
CreateTimeMark(tz, t) ==
  LET timestamp == GetTimeForTimezone(tz, t)
  IN  [time |-> FormatTime(timestamp, tz = "utc"),
       epoch |-> FloorDiv(timestamp, 1000),
       timestamp |-> timestamp]

(***************************************************************************)
(* MarkSyncManager (src/unnamed/part_008 135-207) and the widgets' mark    *)
(* lists, driven directly.                                                 *)
(***************************************************************************)
\* the marks a new widget starts with: those of the first widget that has any
\* (TileManager.ts 297-313)
ExistingMarksOf(ms, mk) ==
  LET with == {i \in DOMAIN ms : mk[ms[i]] # <<>>}
  IN  IF with = {} THEN <<>>
      ELSE mk[ms[CHOOSE i \in with : \A j \in with : i <= j]]

\* new TimeModule(element, data): UUIDModule.ts 3370-3393
NewTimeModule(m, tz) ==
  /\ m \notin Range(modules)
  /\ Len(modules) < MaxModules
  /\ SetClock(ClockSubscribe(ClockState, m))
  /\ modules' = SyncRegister(modules, m)
  /\ timezone' = [timezone EXCEPT ![m] = tz]
  /\ marks' = [marks EXCEPT ![m] = ExistingMarksOf(modules, marks)]
  /\ callLog' = <<>>
  /\ uncaught' = FALSE
  /\ consoleErrors' = 0
  /\ UNCHANGED <<tmVars, tickCount, now, envVars, scanVars, widgetVars>>

\* destroy(): UUIDModule.ts 3658-3661
DestroyTimeModule(m) ==
  /\ m \in Range(modules)
  /\ modules' = SyncUnregister(modules, m)
  /\ SetClock(ClockUnsubscribe(ClockState, m))
  /\ marks' = [marks EXCEPT ![m] = <<>>]
  /\ callLog' = <<>>
  /\ scrollTop' = [scrollTop EXCEPT ![m] = 0]
  /\ scrollPending' = scrollPending \ {m}
  /\ scrollRange' = [scrollRange EXCEPT ![m] = MaxScrollOffset]
  /\ hasMoved' = [hasMoved EXCEPT ![m] = FALSE]
  /\ uncaught' = FALSE
  /\ consoleErrors' = 0
  /\ UNCHANGED <<tmVars, tickCount, timezone, now, envVars, scanVars, calendar>>

\* the wall clock moves on
ClockAdvances ==
  /\ now < MaxClockSteps * 500
  /\ now' = now + 500
  /\ callLog' = <<>>
  /\ UNCHANGED <<tmVars, clockVars, modules, timezone, marks, envVars, scanVars, outVars,
                 widgetVars>>

CallOf(op, m, mark) == [op |-> op, module |-> m, mark |-> mark]

\* a syncTap that marks each widget as soon as its mark is computed
SyncTapCallsInterleaved(ms, tzs, t) ==
  [i \in 1 .. 2 * Len(ms) |->
     CallOf(IF i % 2 = 1 THEN "createTimeMark" ELSE "addMark",
            ms[(i + 1) \div 2], CreateTimeMark(tzs[ms[(i + 1) \div 2]], t))]

\* lines 167-181: the calls of one syncTap, in order: getTimezone and
\* createTimeMark for every registered widget, then addMark for every one
SyncTapCalls(ms, tzs, t) ==
  [i \in 1 .. Len(ms) |-> CallOf("createTimeMark", ms[i], CreateTimeMark(tzs[ms[i]], t))]
  \o [i \in 1 .. Len(ms) |-> CallOf("addMark", ms[i], CreateTimeMark(tzs[ms[i]], t))]

\* the addMark calls of a call sequence that go to widget m, in order
MarksAddedTo(calls, m) ==
  LET added == SelectSeq(calls, LAMBDA c : c.op = "addMark" /\ c.module = m)
  IN  [i \in DOMAIN added |-> added[i].mark]

\* addMark (UUIDModule.ts 3407-3411): this.data.marks.unshift(mark)
RECURSIVE UnshiftAll(_, _)
UnshiftAll(list, added) ==
  IF added = <<>> THEN list ELSE UnshiftAll(<<Head(added)>> \o list, Tail(added))

\* saveToStorage of a widget (UUIDModule.ts 3427-3433) calls the
\* TileManager's saveToStorage: n such calls
RECURSIVE SaveTimes(_, _)
SaveTimes(w, n) == IF n = 0 THEN w ELSE SaveTimes(SaveToStorage(w), n - 1)

\* a forEach over the registered widgets ms in which the call on a widget of
\* saving ends in saveToStorage: the widgets the loop reaches, which is all
\* of them unless the first write throws and ends the loop
Reached(ms, saving, throws) ==
  LET savers == {i \in DOMAIN ms : ms[i] \in saving}
  IN  IF ~throws \/ savers = {} THEN ms
      ELSE SubSeq(ms, 1, CHOOSE i \in savers : \A j \in savers : i <= j)

\* the calls of a syncTap that are made when its second loop reaches the
\* widgets of reached only
CallsMade(calls, reached) ==
  SelectSeq(calls, LAMBDA c : c.op = "createTimeMark" \/ c.module \in reached)

\* syncTap (part_008 167-181) at the instant now, with addMark
\* (UUIDModule.ts 3407-3411, part_003 52-59) on every widget reached
SyncTap ==
  LET reached == Range(Reached(modules, Range(modules), WriteThrows(Workspace)))
      calls == CallsMade(SyncTapCalls(modules, timezone, now), reached)
      w == SaveTimes(Workspace, Cardinality(reached))
  IN  /\ callLog' = calls
      /\ marks' = [m \in DOMAIN marks |-> UnshiftAll(marks[m], MarksAddedTo(calls, m))]
      /\ persistLog' = w.persistLog
      /\ tiles' = w.tiles
      /\ uncaught' = w.thrown
      /\ consoleErrors' = w.errors

\* a listener that returns without calling syncTap
NoTap ==
  /\ callLog' = <<>>
  /\ persistLog' = <<>>
  /\ uncaught' = FALSE
  /\ consoleErrors' = 0
  /\ UNCHANGED <<marks, tiles>>

\* listeners that never leave the gesture to the drag handlers
SkipsTapNever == FALSE

\* the test of the listeners (UUIDModule.ts 3493-3497, 3531-3534; part_003
\* 120-124, 156-159): in edit mode the gesture is left to the drag handlers
SkipsTap == isEditMode

\* the click listener of a time or epoch widget (UUIDModule.ts 3491-3502,
\* part_003 118-129), for a click that is not a touch: nothing in edit mode,
\* else handleTap (3627-3630), which is syncTap(source)
HandleTap(source) ==
  /\ source \in Range(modules)
  /\ \A m \in Range(modules) : Len(marks[m]) < MaxMarks
  /\ IF SkipsTap THEN NoTap ELSE SyncTap
  /\ UNCHANGED <<isEditMode, elemPos, dragVars, dropZones, hovered, pendingGridPosition, modalRequests,
                 editModeTiles, removeButtons, clockVars, modules, timezone, now, envVars, scanVars, widgetVars>>

\* the touchstart listener of a widget (UUIDModule.ts 3505-3515, part_003
\* 131-141)
WidgetTouchStart(m) ==
  /\ m \in Range(modules)
  /\ hasMoved' = IF SkipsTap THEN hasMoved ELSE [hasMoved EXCEPT ![m] = FALSE]
  /\ NoTap
  /\ UNCHANGED <<isEditMode, elemPos, dragVars, dropZones, hovered, pendingGridPosition, modalRequests,
                 editModeTiles, removeButtons, clockVars, modules, timezone, now, envVars, scanVars,
                 scrollTop, scrollPending, scrollRange, calendar>>

\* the touchmove listener (UUIDModule.ts 3517-3527, part_003 143-152); far:
\* the touch is more than 10 px from where it started, in either axis
WidgetTouchMove(m, far) ==
  /\ m \in Range(modules)
  /\ hasMoved' = IF ~hasMoved[m] /\ far THEN [hasMoved EXCEPT ![m] = TRUE] ELSE hasMoved
  /\ NoTap
  /\ UNCHANGED <<isEditMode, elemPos, dragVars, dropZones, hovered, pendingGridPosition, modalRequests,
                 editModeTiles, removeButtons, clockVars, modules, timezone, now, envVars, scanVars,
                 scrollTop, scrollPending, scrollRange, calendar>>

\* the touchend listener (UUIDModule.ts 3529-3541, part_003 154-165): nothing
\* in edit mode; else a touch that has not moved is a tap, and hasMoved is
\* false afterwards (reset, or left as it was when the tap threw)
WidgetTouchEnd(m) ==
  /\ m \in Range(modules)
  /\ \A o \in Range(modules) : Len(marks[o]) < MaxMarks
  /\ IF SkipsTap
     THEN NoTap /\ UNCHANGED hasMoved
     ELSE /\ IF ~hasMoved[m] THEN SyncTap ELSE NoTap
          /\ hasMoved' = [hasMoved EXCEPT ![m] = FALSE]
  /\ UNCHANGED <<isEditMode, elemPos, dragVars, dropZones, hovered, pendingGridPosition, modalRequests,
                 editModeTiles, removeButtons, clockVars, modules, timezone, now, envVars, scanVars,
                 scrollTop, scrollPending, scrollRange, calendar>>

\* lines 183-187 with removeMark (UUIDModule.ts 3413-3419): the click
\* listener of a mark's remove button
SyncRemoveMark(index) ==
  LET hit == {m \in Range(modules) : index < Len(marks[m])}
      reached == Range(Reached(modules, hit, WriteThrows(Workspace))) \cap hit
      w == SaveTimes(Workspace, Cardinality(reached))
  IN  /\ modules # <<>>
      /\ marks' = [m \in DOMAIN marks |->
                     IF m \in reached
                     THEN [i \in 1 .. (Len(marks[m]) - 1) |->
                             IF i <= index THEN marks[m][i] ELSE marks[m][i + 1]]
                     ELSE marks[m]]
      /\ persistLog' = w.persistLog
      /\ tiles' = w.tiles
      /\ uncaught' = w.thrown
      /\ consoleErrors' = w.errors
      /\ callLog' = <<>>
      /\ UNCHANGED <<isEditMode, elemPos, dragVars, dropZones, hovered,
                     pendingGridPosition, modalRequests, editModeTiles, removeButtons, clockVars, modules, timezone,
                     now, envVars, scanVars, widgetVars>>

\* lines 189-193 with clearMarks (UUIDModule.ts 3421-3425): the click
\* listener of the clear button
SyncClearMarks ==
  LET reached == Range(Reached(modules, Range(modules), WriteThrows(Workspace)))
      w == SaveTimes(Workspace, Cardinality(reached))
  IN  /\ modules # <<>>
      /\ marks' = [m \in DOMAIN marks |-> IF m \in reached THEN <<>> ELSE marks[m]]
      /\ persistLog' = w.persistLog
      /\ tiles' = w.tiles
      /\ uncaught' = w.thrown
      /\ consoleErrors' = w.errors
      /\ callLog' = <<>>
      /\ UNCHANGED <<isEditMode, elemPos, dragVars, dropZones, hovered,
                     pendingGridPosition, modalRequests, editModeTiles, removeButtons, clockVars, modules, timezone,
                     now, envVars, scanVars, widgetVars>>

\* new CalendarModule(element, data) with no date selected (UUIDModule.ts
\* 2141-2145)
NewCalendarModule ==
  /\ IsNull(calendar)
  /\ calendar' = Some([selectedDates |-> <<>>, lastClickedDate |-> NULL])
  /\ NoTap
  /\ UNCHANGED <<isEditMode, elemPos, dragVars, dropZones, hovered, pendingGridPosition, modalRequests,
                 editModeTiles, removeButtons, clockVars, modules, timezone, now, envVars, scanVars,
                 scrollTop, scrollPending, scrollRange, hasMoved>>

\* UUIDModule.ts 2383-2420 on the widget's dates: nothing for the date
\* clicked last; a selected date moves to the end, a new one is appended
HandleDayClick(c, date) ==
  IF c.lastClickedDate = Some(date) THEN c
  ELSE [selectedDates |-> Append(SelectSeq(c.selectedDates, LAMBDA d : d # date), date),
        lastClickedDate |-> Some(date)]

\* UUIDModule.ts 2313-2316: the check of the day listener
SkipsDayClick == isEditMode

\* UUIDModule.ts 2311-2325: the click listener of a calendar day; a click
\* that is handled ends in saveToStorage (line 2419)
CalendarDayClick(date) ==
  /\ ~IsNull(calendar)
  /\ LET handled == ~SkipsDayClick /\ Val(calendar).lastClickedDate # Some(date)
         w == SaveTimes(Workspace, IF handled THEN 1 ELSE 0)
     IN  /\ calendar' = IF SkipsDayClick THEN calendar
                        ELSE Some(HandleDayClick(Val(calendar), date))
         /\ persistLog' = w.persistLog
         /\ tiles' = w.tiles
         /\ uncaught' = w.thrown
         /\ consoleErrors' = w.errors
  /\ callLog' = <<>>
  /\ UNCHANGED <<isEditMode, elemPos, dragVars, dropZones, hovered, pendingGridPosition, modalRequests,
                 editModeTiles, removeButtons, clockVars, modules, timezone, marks, now, envVars, scanVars,
                 scrollTop, scrollPending, scrollRange, hasMoved>>

\* a syncScroll that does not skip the source module
SyncScrollAll(tops, ms, source, offset) ==
  [m \in DOMAIN tops |-> IF m \in Range(ms) THEN offset ELSE tops[m]]

\* part_008 195-206, on the scrollTop of the marks lists: every registered
\* module but the source has its list set to the offset (each widget of the
\* repository has getMarksList and a marks list)
SyncScroll(tops, ms, source, offset) ==
  [m \in DOMAIN tops |-> IF m \in Range(ms) /\ m # source THEN offset ELSE tops[m]]

\* the user scrolls the marks list of widget m: the browser sets scrollTop
\* and queues the scroll event
UserScrolls(m, offset) ==
  /\ m \in Range(modules)
  /\ offset # scrollTop[m]
  /\ offset <= scrollRange[m]
  /\ scrollTop' = [scrollTop EXCEPT ![m] = offset]
  /\ scrollPending' = scrollPending \cup {m}
  /\ callLog' = <<>>
  /\ UNCHANGED <<tmVars, clockVars, modules, timezone, marks, now, envVars, scanVars, outVars,
                 scrollRange, hasMoved, calendar>>

\* the layout gives the marks list of widget m the scroll range r (its
\* content or its box changes size); the browser keeps scrollTop within the
\* range, with a scroll event when that moves it
ListResized(m, r) ==
  /\ m \in Range(modules)
  /\ r # scrollRange[m]
  /\ scrollRange' = [scrollRange EXCEPT ![m] = r]
  /\ scrollTop' = [scrollTop EXCEPT ![m] = Min2(@, r)]
  /\ scrollPending' = IF scrollTop[m] > r THEN scrollPending \cup {m} ELSE scrollPending
  /\ callLog' = <<>>
  /\ UNCHANGED <<tmVars, clockVars, modules, timezone, marks, now, envVars, scanVars, outVars,
                 hasMoved, calendar>>

\* an assignment to scrollTop takes the nearest offset of the list's range
ClampedToRange(tops) == [m \in DOMAIN tops |-> Min2(tops[m], scrollRange[m])]

\* a browser that raises a scroll event on every list syncScroll assigns to,
\* moved or not
ScrollListenerEveryAssignment(m) ==
  /\ m \in scrollPending
  /\ LET tops == ClampedToRange(SyncScroll(scrollTop, modules, m, scrollTop[m]))
     IN  /\ scrollTop' = tops
         /\ scrollPending' = (scrollPending \ {m}) \cup (Range(modules) \ {m})
  /\ callLog' = <<>>
  /\ uncaught' = FALSE
  /\ consoleErrors' = 0
  /\ UNCHANGED <<tmVars, clockVars, modules, timezone, marks, now, envVars, scanVars,
                 scrollRange, hasMoved, calendar>>

\* UUIDModule.ts 3468-3470, part_003 107-109: the scroll listener of widget
\* m reports its scrollTop; a list whose scrollTop changes gets a scroll
\* event of its own
ScrollListener(m) ==
  /\ m \in scrollPending
  /\ LET tops == ClampedToRange(SyncScroll(scrollTop, modules, m, scrollTop[m]))
     IN  /\ scrollTop' = tops
         /\ scrollPending' =
              (scrollPending \ {m}) \cup {k \in DOMAIN tops : tops[k] # scrollTop[k]}
  /\ callLog' = <<>>
  /\ uncaught' = FALSE
  /\ consoleErrors' = 0
  /\ UNCHANGED <<tmVars, clockVars, modules, timezone, marks, now, envVars, scanVars,
                 scrollRange, hasMoved, calendar>>

\* the marks lists of the widgets scrolled by the user
NextScroll ==
  \/ \E m \in 1 .. MaxModules, tz \in Timezones : NewTimeModule(m, tz)
  \/ \E m \in 1 .. MaxModules : DestroyTimeModule(m)
  \/ \E m \in 1 .. MaxModules, offset \in 0 .. MaxScrollOffset : UserScrolls(m, offset)
  \/ \E m \in 1 .. MaxModules, r \in 0 .. MaxScrollOffset : ListResized(m, r)
  \/ \E m \in 1 .. MaxModules : ScrollListener(m)

SpecScroll == Init /\ [][NextScroll]_vars

(***************************************************************************)
(* One scroll at a time: the user scrolls, the layout changes and widgets  *)
(* come and go only while no scroll event is queued.  The browser          *)
(* dispatches a queued scroll event sooner or later: the listeners are     *)
(* weakly fair.                                                            *)
(***************************************************************************)
Quiescent == scrollPending = {}

ScrollEventDispatched == \E m \in 1 .. MaxModules : ScrollListener(m)

NextOneScroll ==
  \/ Quiescent /\ \E m \in 1 .. MaxModules, tz \in Timezones : NewTimeModule(m, tz)
  \/ Quiescent /\ \E m \in 1 .. MaxModules : DestroyTimeModule(m)
  \/ Quiescent /\ \E m \in 1 .. MaxModules, offset \in 0 .. MaxScrollOffset : UserScrolls(m, offset)
  \/ Quiescent /\ \E m \in 1 .. MaxModules, r \in 0 .. MaxScrollOffset : ListResized(m, r)
  \/ \E m \in 1 .. MaxModules : ScrollListener(m)

SpecOneScroll == Init /\ [][NextOneScroll]_vars /\ WF_vars(ScrollEventDispatched)

NextSync ==
  \/ \E m \in 1 .. MaxModules, tz \in Timezones : NewTimeModule(m, tz)
  \/ \E m \in 1 .. MaxModules : DestroyTimeModule(m)
  \/ ClockAdvances
  \/ \E m \in 1 .. MaxModules : HandleTap(m)
  \/ \E index \in 0 .. (MaxMarks - 1) : SyncRemoveMark(index)
  \/ SyncClearMarks
  \/ ToggleEditMode

SpecSync == Init /\ [][NextSync]_vars

\* the operations on the tile set and the edit mode
WorkspaceStep ==
  \/ ToggleEditMode
  \/ \E id \in TileIds : AddTileFromModal(id)
  \/ CloseModal
  \/ \E list \in LoadableLists : LoadTiles(list)
  \/ \E id \in TileIds : RemoveButton(id)
  \/ \E id \in TileIds : UpdateTile(id)
  \/ \E cell \in ViewCells : DropZoneClick(cell)

\* lines 863-867: the mouse listeners
MouseStep ==
  \/ \E target \in Targets : HandleMouseStart(target)
  \/ \E p \in MovePoints(mouseStart) : HandleMouseMove(p)
  \/ \E p \in EventPoints : HandleMouseEnd(p)
  \/ CooldownElapsed

\* lines 869-873: the touch listeners
TouchStep ==
  \/ \E target \in Targets : HandleTouchStart(target)
  \/ \E p \in MovePoints(touchStart) : HandleTouchMove(p)
  \/ \E p \in EventPoints : HandleTouchEnd(p)

\* lines 443-449: the native drag listeners of the container
NativeStep ==
  \/ \E p \in EventPoints : HandleDragOver(p)
  \/ \E p \in EventPoints : HandleDrop(p)

Next ==
  \/ WorkspaceStep
  \/ MouseStep
  \/ TouchStep
  \/ NativeStep

Spec == Init /\ [][Next]_vars

\* the workspace driven with a mouse
NextMouse ==
  \/ WorkspaceStep
  \/ MouseStep

SpecMouse == Init /\ [][NextMouse]_vars

\* the workspace driven by touch
NextTouch ==
  \/ WorkspaceStep
  \/ TouchStep

SpecTouch == Init /\ [][NextTouch]_vars

\* the workspace with native drags: the press on a draggable tile is a
\* mousedown, the browser then delivers dragover and drop and no mouseup
NextNative ==
  \/ WorkspaceStep
  \/ \E target \in Targets : HandleMouseStart(target)
  \/ NativeStep

SpecNative == Init /\ [][NextNative]_vars

\* the tile lists a tab holds once its tiles were persisted: every tile with
\* its position
SavedLayouts ==
  {l \in LoadableLists : Len(l) = MaxTiles /\ \A i \in DOMAIN l : ~IsNull(l[i].gridPosition)}

\* the three pointer modalities together, on the tiles of saved tabs
NextPointer ==
  \/ ToggleEditMode
  \/ \E list \in SavedLayouts : LoadTiles(list)
  \/ MouseStep
  \/ TouchStep
  \/ NativeStep

SpecPointer == Init /\ [][NextPointer]_vars

(***************************************************************************)
(* The storage of the page.  A write to localStorage fails while the quota *)
(* is used up (by this page or by another one of the same origin).         *)
(***************************************************************************)
StorageFills ==
  /\ ~storageFull
  /\ storageFull' = TRUE
  /\ UNCHANGED <<hostname, scanVars, tmVars, outVars, clockVars, syncVars, widgetVars>>

StorageFrees ==
  /\ storageFull
  /\ storageFull' = FALSE
  /\ UNCHANGED <<hostname, scanVars, tmVars, outVars, clockVars, syncVars, widgetVars>>

\* the handlers that persist, on a page served from any host, with a storage
\* that fills up
NextStorage ==
  \/ StorageFills
  \/ StorageFrees
  \/ ToggleEditMode
  \/ \E id \in TileIds : AddTileFromModal(id)
  \/ \E id \in TileIds : RemoveButton(id)
  \/ \E id \in TileIds : UpdateTile(id)
  \/ \E target \in Targets : HandleMouseStart(target)
  \/ \E p \in EventPoints : HandleDrop(p)
  \/ \E m \in 1 .. MaxModules : HandleTap(m)

SpecStorage == (\E host \in Hostnames : InitAt(host)) /\ [][NextStorage]_vars

\* tiles added, removed and loaded while the clock ticks
NextRegistry ==
  \/ ToggleEditMode
  \/ \E id \in TileIds : AddTileFromModal(id)
  \/ \E id \in TileIds : RemoveButton(id)
  \/ \E list \in LoadableLists : LoadTiles(list)
  \/ TimeoutCallback({})
  \/ IntervalCallback({})

SpecRegistry == Init /\ [][NextRegistry]_vars

(***************************************************************************)
(* getGridPositionFromEvent on its own: events at the edges of the         *)
(* container, of its padding, of a tile's rectangle and of the rows        *)
(* tolerated below, with and without the overlays shown.                   *)
(***************************************************************************)
\* the lowest clientY for which a cell is returned (lines 542-546)
MaxY == ContainerBottom + MaxRowsBelow * (TileHeight + GridGap)

ProbePoints ==
  {[x |-> x, y |-> y] :
     x \in {ContainerRect.left - 1, ContainerRect.left,
            ContainerRect.left + ContainerPadding - 1, CellLeft(0),
            CellLeft(1) - 1, CellLeft(1), ContainerRight, ContainerRight + 1},
     y \in {ContainerRect.top - 1, ContainerRect.top, CellTop(0) + TileHeight + 1,
            CellTop(1), MaxY, MaxY + 1}}

\* a pointer event at p of which a handler asks the cell (lines 521, 806,
\* 941, 972, 1072, 1090)
Probe(p) ==
  /\ pointer' = Some(p)
  /\ gridCell' = GetGridPositionFromEvent(p, dropZones)
  /\ UNCHANGED <<occupied, nextPosition, tmVars, envVars, outVars, clockVars, syncVars,
                 widgetVars>>

NextGrid ==
  \/ ToggleEditMode
  \/ \E id \in TileIds : AddTileFromModal(id)
  \/ \E p \in ProbePoints : Probe(p)

SpecGrid == Init /\ [][NextGrid]_vars

(***************************************************************************)
(* getNextAvailablePosition on its own: the Set of occupied cells it       *)
(* builds from the tiles (lines 760-767) is the input, drawn from the      *)
(* cells below and from grids whose first rows are full.                   *)
(***************************************************************************)
\* the cells single tiles are put on and taken from: the first rows of the
\* scanned columns and the row below the last row scanned
ScanCells ==
  {[col |-> c, row |-> r] : c \in 0 .. (MaxColsOfScan - 1), r \in 0 .. (MaxScanRows - 1)}
  \cup {[col |-> c, row |-> RowLimit] : c \in 0 .. 1}

\* every cell of the first n rows of the scanned columns
FullRows(n) ==
  {[col |-> c, row |-> r] : c \in 0 .. (MaxColsOfScan - 1), r \in 0 .. (n - 1)}

\* a tile is added with no position given (lines 249-252): it takes the
\* cell getNextAvailablePosition returns (followed while that is one of
\* ScanCells)
PlaceNext ==
  /\ LET pos == ScanRows(occupied)
     IN  /\ [col |-> pos.x, row |-> pos.y] \in ScanCells
         /\ nextPosition' = Some(pos)
         /\ occupied' = occupied \cup {[col |-> pos.x, row |-> pos.y]}
  /\ UNCHANGED <<pointer, gridCell, tmVars, envVars, outVars, clockVars, syncVars, widgetVars>>

\* a tile is loaded, added or dropped at the cell c
PlaceAt(c) ==
  /\ c \notin occupied
  /\ occupied' = occupied \cup {c}
  /\ nextPosition' = NULL
  /\ UNCHANGED <<pointer, gridCell, tmVars, envVars, outVars, clockVars, syncVars, widgetVars>>

\* the tile at the cell c is removed or dragged away
Unplace(c) ==
  /\ c \in occupied
  /\ occupied' = occupied \ {c}
  /\ nextPosition' = NULL
  /\ UNCHANGED <<pointer, gridCell, tmVars, envVars, outVars, clockVars, syncVars, widgetVars>>

\* a saved layout is loaded whose tiles fill the first n rows
PlaceRows(n) ==
  /\ occupied = {}
  /\ occupied' = FullRows(n)
  /\ nextPosition' = NULL
  /\ UNCHANGED <<pointer, gridCell, tmVars, envVars, outVars, clockVars, syncVars, widgetVars>>

NextScan ==
  \/ PlaceNext
  \/ \E c \in ScanCells : PlaceAt(c)
  \/ \E c \in ScanCells : Unplace(c)
  \/ \E n \in {1, RowLimit} : PlaceRows(n)

SpecScan == Init /\ [][NextScan]_vars

\* the listeners of the time, epoch and calendar widgets, in both modes
NextWidgets ==
  \/ \E m \in 1 .. MaxModules, tz \in {"local", "utc"} : NewTimeModule(m, tz)
  \/ \E m \in 1 .. MaxModules : DestroyTimeModule(m)
  \/ NewCalendarModule
  \/ ToggleEditMode
  \/ \E m \in 1 .. MaxModules : HandleTap(m)
  \/ \E m \in 1 .. MaxModules : WidgetTouchStart(m)
  \/ \E m \in 1 .. MaxModules, far \in BOOLEAN : WidgetTouchMove(m, far)
  \/ \E m \in 1 .. MaxModules : WidgetTouchEnd(m)
  \/ \E date \in 1 .. MaxDates : CalendarDayClick(date)
  \/ SyncClearMarks

SpecWidgets == Init /\ [][NextWidgets]_vars

\* time and epoch tiles added and removed, and the marks of their widgets
NextMarks ==
  \/ ToggleEditMode
  \/ \E id \in TileIds : AddTileFromModal(id)
  \/ \E id \in TileIds : RemoveButton(id)
  \/ ClockAdvances
  \/ \E m \in 1 .. MaxModules : HandleTap(m)
  \/ \E index \in 0 .. (MaxMarks - 1) : SyncRemoveMark(index)
  \/ SyncClearMarks

SpecMarks == Init /\ [][NextMarks]_vars

\* the widgets and the MarkSyncManager driven directly, on a page served
\* from any host, with a storage that fills up
NextBroadcast ==
  \/ StorageFills
  \/ StorageFrees
  \/ \E m \in 1 .. MaxModules, tz \in Timezones : NewTimeModule(m, tz)
  \/ ClockAdvances
  \/ \E m \in 1 .. MaxModules : HandleTap(m)
  \/ \E index \in 0 .. (MaxMarks - 1) : SyncRemoveMark(index)
  \/ SyncClearMarks

SpecBroadcast == (\E host \in Hostnames : InitAt(host)) /\ [][NextBroadcast]_vars

(***************************************************************************)
(* Properties of the grid, the clock and the mark broadcast.               *)
(***************************************************************************)
\* C1: after any sequence of committed operations (addTile, loadTiles, a
\* drag commit by mouse, touch or native drop, removeTile) no two distinct
\* tiles held by the TileManager have the same gridPosition.
C1_NoTwoTilesShareACell ==
  \A i, j \in DOMAIN tiles : i # j => tiles[i].gridPosition # tiles[j].gridPosition

\* C2: whatever the order of subscribe calls, unsubscribe calls and timer
\* callbacks, a timer is live exactly while there are subscribers (the first
\* subscribe starts it, the unsubscribe that empties the set stops it), and
\* never more than one timer, timeout or interval, is live.
C2_OneTimerWhileSubscribed ==
  /\ Cardinality(timers) <= 1
  /\ (subscribers # {}) <=> (timers # {})
  /\ isRunning <=> (subscribers # {})

\* several subscribers share the interval that followed the first tick
C2_Witness ==
  /\ Cardinality(subscribers) > 1
  /\ \E t \in timers : t.kind = "interval"
  /\ \E s \in subscribers : tickCount[s] > 0

C4_MarksCarryTheInstantOfTheTap ==
  \A i \in DOMAIN callLog :
    callLog[i].op = "addMark"
      => /\ callLog[i].mark.timestamp = now
         /\ callLog[i].mark.epoch = FloorDiv(now, 1000)

(***************************************************************************)
(* Properties of the drag sessions.                                        *)
(***************************************************************************)
\* a pressed tile that has not started to drag yet, per modality (the
\* conditions under which handleMouseMove and handleTouchMove test the
\* threshold)
MouseArmed == ~ModalOpen /\ isEditMode /\ ~IsNull(draggedElement) /\ ~isMouseDragging
TouchArmed == ~ModalOpen /\ ~IsNull(draggedElement) /\ ~isTouchDragging

\* the larger of the two axis displacements of p from the pointer-down point
Displacement(start, p) == Max2(Abs(p.x - start.x), Abs(p.y - start.y))

\* C5 (as amended): for an armed session, mouse or touch, a movement of at
\* most 10 units in both axes never starts the drag, and a movement of more
\* than 10 units in either axis always does.
C5_DragStartsBeyondTheThreshold ==
  [][/\ \A p \in MovePoints(mouseStart) :
          (MouseArmed /\ HandleMouseMove(p))
            => (isMouseDragging' <=> (Displacement(mouseStart, p) > DragThreshold))
     /\ \A p \in MovePoints(touchStart) :
          (TouchArmed /\ HandleTouchMove(p))
            => (isTouchDragging' <=> (Displacement(touchStart, p) > DragThreshold))]_vars

\* a mouse session that went from armed to dragging
C5_Witness ==
  /\ isMouseDragging
  /\ ~IsNull(draggedElement)
  /\ ~IsNull(lastHighlightedGridPos)
  /\ isEditMode

\* C5 (as claimed): a movement of less than 10 units in both axes never
\* starts the drag, and a movement of 10 units or more in either axis always
\* does.
C5_DragStartsAtTheThreshold ==
  [][/\ \A p \in MovePoints(mouseStart) :
          (MouseArmed /\ HandleMouseMove(p))
            => (isMouseDragging' <=> (Displacement(mouseStart, p) >= DragThreshold))
     /\ \A p \in MovePoints(touchStart) :
          (TouchArmed /\ HandleTouchMove(p))
            => (isTouchDragging' <=> (Displacement(touchStart, p) >= DragThreshold))]_vars

\* C6: when edit mode is left, the session is idle afterwards: no dragged
\* element and no dragging flag of any modality remains set.
C6_LeavingEditModeResetsTheSession ==
  [][(isEditMode /\ ~isEditMode')
       => (IsNull(draggedElement') /\ ~isMouseDragging' /\ ~isTouchDragging')]_vars

\* C7: in NORMAL mode no mouse, touch or native drag-and-drop event arms a
\* session, sets a dragging flag, changes a tile's gridPosition or its
\* element's place, removes a tile, or calls the persistence callback.
C7_NormalModeIgnoresPointerEvents ==
  [][(~isEditMode /\ (MouseStep \/ TouchStep \/ NativeStep))
       => /\ IsNull(draggedElement')
          /\ ~isMouseDragging'
          /\ isTouchDragging' = isTouchDragging
          /\ tiles' = tiles
          /\ elemPos' = elemPos
          /\ persistLog' = <<>>]_vars

\* NORMAL mode with all tiles loaded and no drop zone shown, the cell of a
\* handled pointer event being remembered
C7_Witness ==
  /\ ~isEditMode
  /\ Len(tiles) = MaxTiles
  /\ ~IsNull(lastHighlightedGridPos)
  /\ dropZones = NoZones

\* the session holds the element of a tile of the workspace
HoldsTile ==
  /\ ~IsNull(draggedElement)
  /\ Val(draggedElement).live
  /\ HasTile(tiles, Val(draggedElement).tileId)

\* the step moves the held tile to cell c and leaves every other tile as it is
MovesHeldTileTo(c) ==
  /\ Len(tiles') = Len(tiles)
  /\ \A i \in DOMAIN tiles :
       tiles'[i] = IF tiles[i].id = Val(draggedElement).tileId
                   THEN [tiles[i] EXCEPT !.gridPosition = [x |-> c.col, y |-> c.row]]
                   ELSE tiles[i]

\* C8: when a dragging session that holds a tile is released (mouseup,
\* touchend or drop) and there is a candidate cell c, the held tile's
\* gridPosition becomes exactly c and every other tile keeps its own.
\* (Each release is named with what every such release leaves behind: no
\* dragged element after a mouseup, none or an exception after a touchend,
\* no overlay after a drop.)
C8_ReleaseMovesTheTileToTheCandidate ==
  [][\A p \in EventPoints :
       /\ (isMouseDragging /\ IsNull(draggedElement') /\ HoldsTile
             /\ ~IsNull(ReleaseCell(p)) /\ HandleMouseEnd(p))
            => MovesHeldTileTo(Val(ReleaseCell(p)))
       /\ (isTouchDragging /\ (IsNull(draggedElement') \/ uncaught') /\ HoldsTile
             /\ ~IsNull(ReleaseCell(p)) /\ HandleTouchEnd(p))
            => MovesHeldTileTo(Val(ReleaseCell(p)))
       /\ (~ModalOpen /\ dropZones' = NoZones /\ HoldsTile
             /\ ~IsNull(DropCell(p)) /\ HandleDrop(p))
            => MovesHeldTileTo(Val(DropCell(p)))]_vars

\* a mouse release has just committed a move: both persistence calls were
\* made and the cooldown runs
C8_Witness ==
  /\ Len(persistLog) = 2
  /\ justFinishedDrag
  /\ IsNull(draggedElement)
  /\ Len(tiles) = MaxTiles

\* the page has no trash element; a trash target that covers no cell of the
\* grid lies outside the container
TrashPoints == {OutsidePoint}

\* C9: a dragging session released over the TrashTarget removes the held
\* tile instead of repositioning it, and persistence is called once, with
\* the remaining tiles.
C9_ReleaseOverTrashRemovesTheTile ==
  [][\A p \in TrashPoints :
       (isMouseDragging /\ HoldsTile /\ HandleMouseEnd(p))
         => /\ ~HasTile(tiles', Val(draggedElement).tileId)
            /\ Len(tiles') = Len(tiles) - 1
            /\ persistLog' = <<tiles'>>]_vars

\* C10: every committed mutation of the tile set (addTile with saving,
\* removeTile, a drag commit that moves a tile, updateTile) calls the
\* persistence callback exactly once, with all current tiles.
C10_EachMutationPersistsOnce ==
  [][((\E id \in TileIds : AddTileFromModal(id) \/ RemoveButton(id) \/ UpdateTile(id))
        \/ (\E p \in EventPoints : HandleMouseEnd(p) /\ tiles' # tiles))
       => persistLog' = <<tiles'>>]_vars

PersistedWhileFull ==
  /\ storageFull
  /\ storageFull' = storageFull
  /\ persistLog' # <<>>

C12_ThrowingSubscribersDoNotStopTheTick ==
  [][\A throwers \in SUBSET subscribers :
       (TimeoutCallback(throwers) \/ IntervalCallback(throwers))
         => /\ \A s \in subscribers : tickCount'[s] = tickCount[s] + 1
            /\ ~uncaught'
            /\ consoleErrors' = Cardinality(throwers)
            /\ isRunning'
            /\ {<<t.id, t.kind>> : t \in timers'} = {<<Val(intervalId'), "interval">>}]_vars

\* a tick of the interval in which one of several subscribers threw has
\* reached them all
C12_Witness ==
  /\ consoleErrors = 1
  /\ Cardinality(subscribers) = MaxSubscribers
  /\ \A s \in subscribers : tickCount[s] = MaxTicks
  /\ \E t \in timers : t.kind = "interval"

\* the widgets a broadcast of this step has to reach
TapReceivers == IF isEditMode THEN {} ELSE Range(modules)
RemoveReceivers(index) == {m \in Range(modules) : index < Len(marks[m])}

\* C13: during a MarkSyncManager broadcast (syncTap, syncRemoveMark,
\* syncClearMarks), if a registered module's handler throws, the exception
\* is caught and every other registered module still receives the
\* operation: after the broadcast every registered module has the new
\* mark, has lost the mark of the index, or has no marks.
C13_BroadcastReachesEveryModule ==
  [][/\ \A source \in 1 .. MaxModules :
          HandleTap(source)
            => \A m \in TapReceivers : Len(marks'[m]) = Len(marks[m]) + 1
     /\ \A index \in 0 .. (MaxMarks - 1) :
          SyncRemoveMark(index)
            => \A m \in RemoveReceivers(index) : Len(marks'[m]) = Len(marks[m]) - 1
     /\ SyncClearMarks
          => \A m \in Range(modules) : marks'[m] = <<>>]_vars

\* the step is a click on the edit button that has turned EDIT mode on
TurnsEditOn == ToggleEditMode /\ isEditMode'

Positions(w) ==
  [grid |-> [i \in DOMAIN w.tiles |-> w.tiles[i].gridPosition], style |-> w.elemPos]

\* C15: in every state, for every tile (its element in the container or
\* replaced by a reload since the drag began) and every candidate cell, the commit
\* of the mouse path, of the touch path and of the native drop path leave
\* the same tile positions: the dragged tile at the candidate cell, the
\* others where they were; and a release point gives the drop path the same
\* candidate cell as the mouse and touch paths.
C15_TheThreeModalitiesCommitAlike ==
  \A id \in DOMAIN elemPos, c \in ViewCells, live \in BOOLEAN :
    LET d == [tileId |-> id, live |-> live]
        byMouse == Positions(MouseRelease(Workspace, d, c))
        byTouch == Positions(TouchRelease(Workspace, d, c))
        byDrop == Positions(DropRelease(Workspace, d, c))
    IN  /\ HasTile(tiles, id) => byMouse = byTouch /\ byTouch = byDrop
        /\ \A p \in EventPoints : ReleaseCell(p) = DropCell(p)

\* a tile is being dragged, by the mouse or by touch, over a candidate cell
\* that is not its own and that another tile does not hold either
C15_Witness ==
  /\ HoldsTile
  /\ isMouseDragging \/ isTouchDragging
  /\ ~IsNull(lastHighlightedGridPos)
  /\ \A i \in DOMAIN tiles : tiles[i].gridPosition # CellToPosition(Val(lastHighlightedGridPos))
  /\ Len(tiles) = MaxTiles

\* C16: when a dragging session (mouse or touch) that holds a tile is
\* released at a point for which there is no candidate cell, nothing is
\* committed: every tile keeps its gridPosition and every element its
\* place, whatever cell an earlier move of the gesture hovered.
C16_ReleaseOutsideLeavesTheTileInPlace ==
  [][\A p \in EventPoints :
       IsNull(GetGridPositionFromEvent(p, dropZones))
         => /\ (isMouseDragging /\ HoldsTile /\ HandleMouseEnd(p))
                 => tiles' = tiles /\ elemPos' = elemPos
            /\ (isTouchDragging /\ HoldsTile /\ HandleTouchEnd(p))
                 => tiles' = tiles /\ elemPos' = elemPos]_vars

TapSecond(mark) == mark.epoch % 3600

C19_ControlsNeverArmADrag ==
  [][\A target \in Targets :
       (/\ target.kind \in {"control", "nested"}
        /\ HandleMouseStart(target) \/ HandleTouchStart(target))
         => draggedElement' = draggedElement]_vars

\* the step is a click or a touch listener of a time or epoch widget, or
\* the click listener of a calendar day
WidgetGesture ==
  \/ \E m \in 1 .. MaxModules :
       \/ HandleTap(m)
       \/ WidgetTouchStart(m)
       \/ \E far \in BOOLEAN : WidgetTouchMove(m, far)
       \/ WidgetTouchEnd(m)
  \/ \E date \in 1 .. MaxDates : CalendarDayClick(date)

\* C20: in EDIT mode no click and no touch gesture on a time or epoch tile
\* reaches syncTap (no call is made, the marks of every module stay as they
\* are) and no click on a calendar day is handled (the selected dates and
\* the date clicked last stay as they are, nothing is saved).
C20_EditModeSuppressesWidgetGestures ==
  [][(isEditMode /\ WidgetGesture)
       => /\ callLog' = <<>>
          /\ marks' = marks
          /\ calendar' = calendar
          /\ persistLog' = <<>>]_vars

\* EDIT mode is on over widgets that took taps and day clicks before it:
\* marks and a selected date exist, and a touch has moved over a widget
C20_Witness ==
  /\ isEditMode
  /\ Len(modules) = MaxModules
  /\ \A m \in Range(modules) : marks[m] # <<>>
  /\ \E m \in Range(modules) : hasMoved[m]
  /\ ~IsNull(calendar)
  /\ Len(Val(calendar).selectedDates) = MaxDates

\* the cells getNextAvailablePosition may have to return: the scanned
\* columns, down to the row below the last tile
GridCells ==
  {[col |-> c, row |-> r] : c \in 0 .. (MaxColsOfScan - 1), r \in 0 .. (RowLimit + 1)}

\* C21: for every set of placed tiles, getNextAvailablePosition returns a
\* cell that no tile occupies, and no unoccupied cell of the scanned columns
\* comes before it in row-major order, whatever its row.
C21_NextPositionIsTheFirstFreeCell ==
  LET pos == ScanRows(occupied)
      cell == [col |-> pos.x, row |-> pos.y]
  IN  /\ cell \notin occupied
      /\ \A q \in GridCells \ occupied : RowMajorBefore(cell, q)

\* the ids of the tiles held whose widget is of one of the types
WidgetsOf(types) == {id \in TileIdsIn(tiles) : TileType(id) \in types}

\* C22: after any sequence of addTile, removeTile and loadTiles, the
\* MarkSyncManager registry holds exactly the widgets of the time and epoch
\* tiles held, each once, the ClockManager subscriber set exactly the
\* widgets of the clock-using tiles held, and with no clock-using tile the
\* clock is stopped and no timer is left.
C22_RegistriesHoldTheWidgetsOfTheTiles ==
  /\ Range(modules) = WidgetsOf(MarkTypes)
  /\ Len(modules) = Cardinality(WidgetsOf(MarkTypes))
  /\ subscribers = WidgetsOf(ClockTypes)
  /\ WidgetsOf(ClockTypes) = {} => ~isRunning /\ timers = {}

\* the widgets that ticked were destroyed with their tiles: no tile is
\* held, both registries are empty and the timer is gone
C22_Witness ==
  /\ tiles = <<>>
  /\ \A s \in TileIds : tickCount[s] > 0
  /\ modules = <<>>
  /\ subscribers = {}
  /\ timers = {}

\* no session is held: no dragged element and no dragging flag
Idle == IsNull(draggedElement) /\ ~isMouseDragging /\ ~isTouchDragging

\* the step is a mouseup, a touchend or a drop
ReleaseStep ==
  \E p \in EventPoints : HandleMouseEnd(p) \/ HandleTouchEnd(p) \/ HandleDrop(p)

\* C23: every session that is ended by a release (mouseup, touchend or a
\* native drop), committed or not, leaves the controller idle: no dragged
\* element stays recorded and no dragging flag stays set.
C23_EveryReleaseReturnsToIdle ==
  [][(~IsNull(draggedElement) /\ ReleaseStep) => Idle']_vars

\* the step calls showAllDropZones: edit mode is entered, a mouse or touch
\* drag starts, a mouse drag is released, or a tile is added in edit mode
ShowsDropZones ==
  \/ ~isEditMode /\ isEditMode'
  \/ ~isMouseDragging /\ isMouseDragging'
  \/ ~isTouchDragging /\ isTouchDragging'
  \/ isMouseDragging /\ ~IsNull(draggedElement) /\ \E p \in EventPoints : HandleMouseEnd(p)
  \/ isEditMode /\ \E id \in TileIds : AddTileFromModal(id)

\* the list dz holds at most one overlay per cell and none for a cell that a
\* tile of ts occupies
OneZonePerFreeCell(dz, ts) ==
  \A c \in DOMAIN dz.attached \cup DOMAIN dz.detached :
    /\ ListedCount(dz, c) <= 1
    /\ ListedCount(dz, c) > 0 => c \notin Occupied(ts)

\* C24: after every step that shows the drop zones (entering edit mode, a
\* drag start, a drag commit, addTile) the drop-zone list holds at most one
\* overlay per cell and none for a cell that a tile occupies.
C24_ShownZonesAreOnePerFreeCell ==
  [][ShowsDropZones => OneZonePerFreeCell(dropZones', tiles')]_vars

\* C25: in EDIT mode with no drag in flight, every unoccupied cell within
\* the bounds of the grid has a drop-zone overlay in the container.
C25_EveryFreeCellHasAZoneInEditMode ==
  (isEditMode /\ Idle)
    => \A c \in NewZoneCells(tiles) : ZoneCount(dropZones.attached, c) > 0

\* C26: in NORMAL mode the drop-zone list is empty and no overlay is in the
\* container, whether or not a dragging flag is left set: none survives
\* leaving edit mode and no event handled in NORMAL mode creates one.
C26_NoDropZoneInNormalMode ==
  ~isEditMode => dropZones.attached = NoCells /\ dropZones.detached = NoCells

\* edit mode was left in the middle of a touch drag, which had shown the
\* zones and hovered one: the flag of the drag is still set, no overlay is
\* left
C26_Witness ==
  /\ ~isEditMode
  /\ isTouchDragging
  /\ ~IsNull(lastHighlightedGridPos)
  /\ dropZones = NoZones
  /\ hovered = {}

\* the step is the move to point p of a mouse or touch session that is
\* dragging once the move is handled
DraggingMove(p) ==
  /\ ~IsNull(draggedElement)
  /\ \/ HandleMouseMove(p) /\ isMouseDragging'
     \/ HandleTouchMove(p) /\ isTouchDragging'

\* C27: while dragging, at most one overlay carries the highlight, and after
\* every pointer move the highlighted overlay, if there is one, is the
\* overlay of the candidate cell of that move.
C27_TheHighlightFollowsTheCandidateCell ==
  [][\A p \in EventPoints \cup MovePoints(mouseStart) \cup MovePoints(touchStart) :
       DraggingMove(p)
         => /\ Cardinality(hovered') <= 1
            /\ \A h \in hovered' :
                 GetGridPositionFromEvent(p, dropZones') = Some(h.cell)]_vars

\* the pointer is left of, right of or above the container, or more than 5
\* rows below its bottom edge
OutOfReach(p) ==
  \/ p.x < ContainerRect.left
  \/ p.x > ContainerRect.left + ContainerRect.width
  \/ p.y < ContainerRect.top
  \/ p.y > ContainerRect.top + ContainerRect.height + 5 * (200 + 24)

\* no overlay in the container is under the pointer
OverNoZone(p) == \A c \in DOMAIN dropZones.attached : ~InZoneRect(p, c)

\* C28: getGridPositionFromEvent returns null exactly when the pointer is
\* left of, right of or above the container or more than 5 rows below it;
\* otherwise a cell with col >= 0 and row >= 0, which with no overlay under
\* the pointer is floor((x - left - 16) / 524), floor((y - top) / 224).
C28_CellIsTheFloorOfTheOffsets ==
  [][\A p \in ProbePoints :
       Probe(p)
         => /\ IsNull(gridCell') <=> OutOfReach(p)
            /\ ~IsNull(gridCell')
                 => /\ Val(gridCell').col >= 0
                    /\ Val(gridCell').row >= 0
                    /\ OverNoZone(p)
                         => /\ Val(gridCell').col
                                 = FloorDiv(p.x - ContainerRect.left - 16, 524)
                            /\ Val(gridCell').row
                                 = FloorDiv(p.y - ContainerRect.top, 224)]_vars

\* C28 (as amended): the same, the column of the fallback being
\* max(0, floor((x - left - 16) / 524)): a pointer over the 16px padding at
\* the left of the container is taken to column 0.
C28_CellIsTheClampedFloorOfTheOffsets ==
  [][\A p \in ProbePoints :
       Probe(p)
         => /\ IsNull(gridCell') <=> OutOfReach(p)
            /\ ~IsNull(gridCell')
                 => /\ Val(gridCell').col >= 0
                    /\ Val(gridCell').row >= 0
                    /\ OverNoZone(p)
                         => /\ Val(gridCell').col
                                 = Max2(0, FloorDiv(p.x - ContainerRect.left - 16, 524))
                            /\ Val(gridCell').row
                                 = FloorDiv(p.y - ContainerRect.top, 224)]_vars

\* in edit mode, the overlays shown, an event over the left padding in the
\* last row tolerated below the container was given the cell of column 0
C28_Witness ==
  /\ isEditMode
  /\ dropZones.attached # NoCells
  /\ pointer = Some([x |-> ContainerRect.left + ContainerPadding - 1, y |-> MaxY])
  /\ gridCell = Some([col |-> 0, row |-> FloorDiv(MaxY - ContainerRect.top, CellHeight)])

C30_NoSessionIsArmedDuringTheCooldown ==
  [][(/\ cooldownTimers > 0
      /\ \E target \in Targets :
           /\ target.kind = "tile"
           /\ HandleMouseStart(target) \/ HandleTouchStart(target))
       => IsNull(draggedElement')]_vars

\* the step leaves the tiles, their elements, the cooldown and the callback
\* untouched and no dragged element recorded
ReleasedWithoutEffect ==
  /\ tiles' = tiles
  /\ elemPos' = elemPos
  /\ persistLog' = <<>>
  /\ cooldownTimers' = cooldownTimers
  /\ justFinishedDrag' = justFinishedDrag
  /\ IsNull(draggedElement')

\* C31: a session that is armed and released before the threshold is
\* crossed ends with no effect: no tile and no element moves, the
\* persistence callback is not called, no cooldown is started, no dragged
\* element stays recorded, the flag of the session's modality stays unset
\* and the release does not cancel the click or tap (no preventDefault).
C31_ReleaseBeforeTheThresholdHasNoEffect ==
  [][\A p \in EventPoints :
       /\ (MouseArmed /\ HandleMouseEnd(p))
            => /\ ReleasedWithoutEffect
               /\ ~isMouseDragging'
               /\ isTouchDragging' = isTouchDragging
               /\ ~MouseEndPreventsDefault
       /\ (TouchArmed /\ HandleTouchEnd(p))
            => /\ ReleasedWithoutEffect
               /\ ~isTouchDragging'
               /\ isMouseDragging' = isMouseDragging
               /\ ~TouchEndPreventsDefault]_vars

\* a tile was pressed and let go without a drag: it is where its layout put
\* it, no session is held and no cooldown runs, the pointer-down point
\* being that of the tile
C31_Witness ==
  /\ isEditMode
  /\ Len(tiles) = MaxTiles
  /\ Idle
  /\ cooldownTimers = 0
  /\ ~justFinishedDrag
  /\ IsNull(lastHighlightedGridPos)
  /\ \E id \in TileIds : touchStart = PointOfTile(id) \/ mouseStart = PointOfTile(id)

\* C32: in every state each tile element in the container is draggable
\* and shows its remove button if and only if the workspace is in EDIT
\* mode, tiles added or loaded since the last toggle included.
C32_TilesAreEditableExactlyInEditMode ==
  \A id \in DOMAIN elemPos :
    /\ id \in editModeTiles <=> isEditMode
    /\ id \in removeButtons <=> isEditMode


NextSecond(at) == (FloorDiv(at, 1000) + 1) * 1000

PendingOneShots == {t \in timers : t.kind = "timeout"}
PendingIntervals == {t \in timers : t.kind = "interval"}

\* C33: each start of the clock schedules exactly one one-shot, whose delay
\* is (1000 - currentMs) + 20 ms, a value of 21 .. 1020, so that the
\* one-shot is never due before the next second boundary; the 1000 ms
\* interval is created only by the step in which that one-shot fires, and
\* the one-shot and the interval are never pending together.
C33_OneShotAlignedToTheNextSecond ==
  /\ [](\A t \in PendingOneShots :
          /\ t.delay = (1000 - (t.at % 1000)) + 20
          /\ t.delay \in 21 .. 1020
          /\ t.at + t.delay > NextSecond(t.at))
  /\ [](PendingOneShots = {} \/ PendingIntervals = {})
  /\ [][(~isRunning /\ isRunning')
          => /\ Cardinality(PendingOneShots') = 1
             /\ \A t \in PendingOneShots' : t.at = now /\ t.id = Val(timeoutId')
             /\ PendingIntervals' = {}]_vars
  /\ [][(PendingIntervals' \ PendingIntervals # {})
          => /\ \E t \in PendingOneShots : t \notin timers' /\ now >= NextSecond(t.at)
             /\ \A t \in PendingIntervals' : t.delay = TickInterval]_vars

\* the clock was started in the last millisecond of a second: the one-shot
\* pending has the least delay
C33_Witness ==
  \E t \in PendingOneShots : t.at % 1000 = 999 /\ t.delay = 21 /\ isRunning

\* C34: in one tick (the callback of the one-shot or of the interval) the
\* onTick of every subscriber is invoked exactly once and of nobody else;
\* subscribing an object that is already subscribed leaves the subscriber
\* set and the timers as they were, so that such an object is still invoked
\* once per tick.  (A tick is one step: its pass over the subscribers has
\* ended when the next callback runs.)
C34_EverySubscriberOncePerTick ==
  /\ [][\A throwers \in SUBSET subscribers :
          (TimeoutCallback(throwers) \/ IntervalCallback(throwers))
            => \A s \in 1 .. MaxSubscribers :
                 tickCount'[s] = IF s \in subscribers THEN tickCount[s] + 1
                                 ELSE tickCount[s]]_vars
  /\ [][\A s \in subscribers :
          Subscribe(s) => /\ subscribers' = subscribers
                          /\ timers' = timers
                          /\ tickCount' = tickCount]_vars

\* all the subscribers have been through two ticks, the one-shot's and one
\* of the interval
C34_Witness ==
  /\ subscribers = 1 .. MaxSubscribers
  /\ \A s \in subscribers : tickCount[s] = 2
  /\ PendingIntervals # {}

\* C35: with the timers' callbacks run sooner or later, a subscriber that
\* from some moment on stays subscribed has its onTick invoked again and
\* again for ever, whatever subscribe and unsubscribe calls the other
\* subscribers make and whichever onTick handlers throw.
C35_ASubscriberThatStaysIsTickedForEver ==
  \A s \in 1 .. MaxSubscribers :
    <>[](s \in subscribers) => []<><<tickCount'[s] # tickCount[s]>>_vars

\* subscriber 1 is served by the interval after subscriber 2 came and went
C35_Witness ==
  /\ subscribers = {1}
  /\ tickCount[1] = 2
  /\ tickCount[2] = 1
  /\ PendingIntervals # {}

\* the workspace with a storage that takes the write
Persisting(w) == [w EXCEPT !.storageFull = FALSE]

\* the tiles, their positions and the mark lists are left as in w
SameInMemory(w) ==
  /\ tiles' = w.tiles
  /\ elemPos' = w.elemPos
  /\ marks' = w.marks

\* the mark lists after a syncTap that reaches every registered widget
MarksAfterTap ==
  [m \in DOMAIN marks |->
     UnshiftAll(marks[m], MarksAddedTo(SyncTapCalls(modules, timezone, now), m))]

TilesAsWithAPersistThatSucceeds ==
  /\ \A id \in TileIds :
       AddTileFromModal(id)
         => SameInMemory(AddTile(Persisting(Workspace),
                                 [id |-> id, gridPosition |-> NULL, marks |-> <<>>],
                                 TRUE, isEditMode))
  /\ \A id \in TileIds :
       RemoveButton(id) => SameInMemory(RemoveTile(Persisting(Workspace), id))
  /\ \A p \in EventPoints :
       (HandleDrop(p) /\ ~IsNull(draggedElement) /\ ~IsNull(DropCell(p)))
         => SameInMemory(DropRelease(Persisting(Workspace), Val(draggedElement),
                                     Val(DropCell(p))))

MarksAsWithAPersistThatSucceeds ==
  \A m \in 1 .. MaxModules : (HandleTap(m) /\ ~SkipsTap) => marks' = MarksAfterTap

\* C36: a mutation (addTile, removeTile, a drag commit, a mark change) made
\* while the storage write fails leaves the tiles, their positions and the
\* mark lists as the same mutation leaves them when the write succeeds.
C36_InMemoryStateDoesNotDependOnThePersist ==
  [][storageFull => TilesAsWithAPersistThatSucceeds /\ MarksAsWithAPersistThatSucceeds]_vars

\* C37: in every state of the ClockManager a timer (a pending one-shot or
\* an interval) is live exactly when the subscriber set is not empty and
\* isRunning is true, also after the last subscriber has unsubscribed from
\* inside its own onTick during the first aligned tick, and after a
\* subscribe that follows.
C37_ATimerIsLiveExactlyWhileSubscribedAndRunning ==
  (timers # {}) <=> (subscribers # {} /\ isRunning)

ColumnInsideTheGrid == ~IsNull(gridCell) => Val(gridCell).col < MaxColsOfZones
RowInsideTheGrid == ~IsNull(gridCell) => Val(gridCell).row < MaxRowsOfZones(tiles)

\* C38: every cell that getGridPositionFromEvent returns lies inside the
\* bounds showAllDropZones builds the drop zones with: its column is below
\* maxCols = ceil((width - 32) / 524) and its row below maxRows, wherever in
\* the accepted region the pointer is, the right padding included.
C38_ReturnedCellsLieInsideTheGrid ==
  ColumnInsideTheGrid /\ RowInsideTheGrid

\* C39: at most one drag session is in flight: whatever the interleaving of
\* mouse, touch and native drag events, isMouseDragging and isTouchDragging
\* are never both true.  (The claim's second statement, that a tile armed by
\* one modality is not moved by the events of another, presupposes this
\* one: the controller keeps one draggedElement for all modalities.)
C39_AtMostOneDragSession ==
  ~(isMouseDragging /\ isTouchDragging)

\* the registered lists whose range holds the offset o
CanReach(o) == {k \in Range(modules) : scrollRange[k] >= o}

\* the lists that can reach o hold one offset, which is o when every
\* registered list can reach it
MirroredAt(o) ==
  /\ \A j, k \in CanReach(o) : scrollTop[j] = scrollTop[k]
  /\ CanReach(o) = Range(modules) => \A k \in Range(modules) : scrollTop[k] = o

====
